---- MODULE Spec2Model ----
(***************************************************************************)
(* Speech turn-taking pipeline of rachel-ai.                               *)
(*                                                                         *)
(*   SpecPlay  AudioService.play_stream_audio / process_speech /           *)
(*             play_audio: the synthesis worker pool, the shared           *)
(*             audio_queue and the playback thread, over several turns.    *)
(*   SpecTee   StreamSplitter: one producer thread filling chunks, and the *)
(*             generators returned by get().                               *)
(*   SpecRec   AudioService.record: the onset timeout and the stop on      *)
(*             trailing silence, frame by frame.                           *)
(*   SpecTalk  scripts/python/openai-talk.py: the turn with a wake-word    *)
(*             thread and the stop_flag that cancels synthesis and         *)
(*             playback.                                                   *)
(*   SpecSeg   AudioService.play_stream_audio with                         *)
(*             collect_until_sentence_end and parse_special_content: the   *)
(*             text of a response, cut into fragments, becoming the units  *)
(*             submitted to process_speech.  Text is a sequence of         *)
(*             one-character strings.                                      *)
(*   SpecDev   record followed by play_stream_audio: the audio devices of  *)
(*             one voice turn of main.py.                                  *)
(*   SpecMain  the voice loop of main.py: the calls of a turn, their       *)
(*             outcomes, the two consumer threads and the error handler.   *)
(*   SpecTool  ChatService.handle_function_call with the enforcement       *)
(*             decision of GtafRuntimeClient.enforce in front of the       *)
(*             executor.                                                   *)
(*   SpecTeeFair  SpecTee with the reader thread and every consumer        *)
(*             scheduled fairly, for termination of get().                 *)
(*   SpecPlayFair  SpecPlay with its threads scheduled, for termination    *)
(*             of play_stream_audio.                                       *)
(***************************************************************************)
EXTENDS Integers, Sequences, FiniteSets, TLC

(* Bounds of the model. *)
MaxSentences == 2
MaxTurns == 2
MaxFaults == 2
MaxK == 3
MaxConsumers == 2
MaxSlack == 2
MaxBurst == 2
MaxLagMs == 1
MaxChunks == 2
MaxCuts == 2

(* Constants of record(), in milliseconds. *)
FrameMs == 30
MaxSilenceMs == 1000
OnsetWindowMs == 3000

VARIABLES
  (* ---- AudioService synthesis/playback pipeline ---- *)
  turn,               \* number of the current call of play_stream_audio
  psa_pc,             \* position of play_stream_audio (the caller's thread)
  submitted,          \* number of executor.submit calls made in this turn
  task,               \* state of each submitted process_speech task
  transcription_lock, \* 0 when free, else the task holding self.transcription_lock
  audio_queue,        \* self.audio_queue, FIFO, lives as long as the AudioService
  pa_pc,              \* position of the play_audio thread of this turn
  pa_end,             \* what made play_audio leave its loop
  written,            \* segments written to the output device in this turn
  out_stream,         \* the sd.OutputStream of play_audio
  stream_raised,      \* reading the response stream raised in this turn
  faults,             \* failures of the TTS client, the stream and the device so far
  (* ---- StreamSplitter ---- *)
  tee_source,         \* the fragments the wrapped stream yields
  tee_raises,         \* whether the stream raises after them instead of ending
  tee_pulled,         \* fragments taken from the stream so far
  chunks,             \* self.chunks
  finished,           \* self.finished
  reader_pc,          \* position of the _read_stream thread
  get_pc,             \* position of each generator returned by get()
  get_index,          \* its local index
  get_out,            \* the fragments it has yielded
  (* ---- AudioService.record ---- *)
  mic,                \* the frame source: which frames the VAD classifies as speech
  rec_pc,             \* position of record()
  in_stream,          \* the sd.InputStream
  audio_frames,       \* the frames appended so far, by their number in the stream
  silence_duration,   \* in milliseconds
  recording_started,
  rec_elapsed,        \* time.time() - start_time at the last timeout check, in ms
  rec_result,         \* the AudioRecordResult returned
  (* ---- scripts/python/openai-talk.py ---- *)
  stop_flag,          \* threading.Event
  talk_pc,            \* position of stream_chat_with_gpt_and_speak
  talk_submitted,     \* number of executor.submit calls of the turn
  talk_task,          \* position of each process_speech task
  talk_part,          \* audio chunks each task has received so far
  talk_lock,          \* transcription_lock: 0 or the task holding it
  talk_queue,         \* the module-level audio_queue
  tp_pc,              \* position of the play_audio thread
  tp_item,            \* the audio_data play_audio holds between get and write
  talk_written,       \* chunks written to the output stream
  talk_out,           \* the sd.OutputStream of play_audio
  ww_pc,              \* position of the listen_for_wakeword thread
  woken,              \* the wake word was detected in this turn
  writes_after_stop,  \* writes of play_audio made while stop_flag was set
  polls_after_stop,   \* returns of audio_queue.get that found stop_flag set
  (* ---- play_stream_audio: sentence segmentation ---- *)
  seg_frags,          \* the delta.content of the chunks of the response stream
  seg_pos,            \* chunks consumed so far
  seg_pc,             \* "loop", then "done" once the remainder has been handled
  text_buffer,
  in_code_block,
  units,              \* the texts submitted to process_speech, in order
  units_in_code,      \* units submitted by a call entered with in_code_block set
  flushed,            \* units submitted after the loop (the remainder)
  (* ---- main.py: the voice loop ---- *)
  main_pc,            \* the statement of the loop that runs next
  main_turn,          \* iterations of "while True" begun
  rec_outcome,        \* how record() ended in this turn
  calls,              \* the calls made in this turn, in order
  failure,            \* the call whose exception entered "except Exception"
  response,           \* chunks of the stream ask_chat_gpt returned
  text_thread,        \* text_output_thread: "none", "running", "done"
  audio_thread,       \* audio_output_thread: "none", "running", "done"
  text_seen,          \* chunks print_stream_text has taken from its get()
  audio_seen,         \* chunks play_stream_audio has taken from its get()
  (* ---- ChatService.handle_function_call, GtafRuntimeClient.enforce ---- *)
  tool_pc,            \* the call about to run, then the position inside it
  function_name,      \* the tool the model asked for
  arguments,          \* its arguments
  gtaf,               \* the governance client: none, or what stands behind it
  action,             \* the action identifier passed to enforce
  decision,           \* the EnforcementResult enforce returned
  exec_calls,         \* the calls of an executor's exec, in order
  call_outcome        \* the FunctionCallOutcome returned

playVars == <<turn, psa_pc, submitted, task, transcription_lock, audio_queue,
              pa_pc, pa_end, written, out_stream, stream_raised, faults>>

teeVars == <<tee_source, tee_raises, tee_pulled, chunks, finished, reader_pc,
             get_pc, get_index, get_out>>

recVars == <<mic, rec_pc, in_stream, audio_frames, silence_duration,
             recording_started, rec_elapsed, rec_result>>

talkVars == <<stop_flag, talk_pc, talk_submitted, talk_task, talk_part,
              talk_lock, talk_queue, tp_pc, tp_item, talk_written, talk_out,
              ww_pc, woken, writes_after_stop, polls_after_stop>>

segVars == <<seg_frags, seg_pos, seg_pc, text_buffer, in_code_block, units,
             units_in_code, flushed>>

mainVars == <<main_pc, main_turn, rec_outcome, calls, failure, response,
              text_thread, audio_thread, text_seen, audio_seen>>

toolVars == <<tool_pc, function_name, arguments, gtaf, action, decision,
              exec_calls, call_outcome>>

vars == <<playVars, teeVars, recVars, talkVars, segVars, mainVars, toolVars>>

(* The variables of the other components, which a component's steps leave alone. *)
notPlay == <<teeVars, recVars, talkVars, segVars, mainVars, toolVars>>
notTee == <<playVars, recVars, talkVars, segVars, mainVars, toolVars>>
notRec == <<playVars, teeVars, talkVars, segVars, mainVars, toolVars>>
notTalk == <<playVars, teeVars, recVars, segVars, mainVars, toolVars>>
notSeg == <<playVars, teeVars, recVars, talkVars, mainVars, toolVars>>
notMain == <<playVars, teeVars, recVars, talkVars, segVars, toolVars>>
notTool == <<playVars, teeVars, recVars, talkVars, segVars, mainVars>>

(***************************************************************************)
(* AudioService: synthesis / playback pipeline                             *)
(***************************************************************************)
Sentences == 1..MaxSentences

(* Items of audio_queue.  An "audio" item is the ndarray of sentence seq of *)
(* turn t; "fail" and "stop" items are both np.array([]) (size 0): the one  *)
(* put by process_speech's except branch, the other by stop_audio.          *)
AudioItem(t, s) == [turn |-> t, seq |-> s, kind |-> "audio"]
FailItem(t, s) == [turn |-> t, seq |-> s, kind |-> "fail"]
StopItem(t) == [turn |-> t, seq |-> 0, kind |-> "stop"]

(* Values of pa_end other than the end signal taken from the queue: still  *)
(* playing, and an exception of the output device.                         *)
NoEnd == [turn |-> 0, seq |-> 0, kind |-> "none"]
DeviceError == [turn |-> 0, seq |-> 0, kind |-> "error"]

(* audio_data.size == 0 *)
IsEndSignal(item) == item.kind # "audio"

NoTasks == [i \in Sentences |-> "none"]

PlayInit ==
  /\ turn = 1
  /\ psa_pc = "start"
  /\ submitted = 0
  /\ task = NoTasks
  /\ transcription_lock = 0
  /\ audio_queue = <<>>
  /\ pa_pc = "idle"
  /\ pa_end = NoEnd
  /\ written = <<>>
  /\ out_stream = "closed"
  /\ stream_raised = FALSE
  /\ faults = 0

(* play_stream_audio: audio_thread.start() *)
StartAudioThread ==
  /\ psa_pc = "start"
  /\ psa_pc' = "loop"
  /\ pa_pc' = "open"
  /\ UNCHANGED <<turn, submitted, task, transcription_lock, audio_queue, pa_end,
                 written, out_stream, stream_raised, faults>>
  /\ UNCHANGED notPlay

(* executor.submit(self.process_speech, sentence): the next task is queued *)
SubmitTask ==
  /\ submitted' = submitted + 1
  /\ task' = [task EXCEPT ![submitted + 1] = "queued"]

(* play_stream_audio: a chunk completes a sentence, which is submitted *)
SubmitSentence ==
  /\ psa_pc = "loop"
  /\ submitted < MaxSentences
  /\ SubmitTask
  /\ UNCHANGED <<turn, psa_pc, transcription_lock, audio_queue, pa_pc, pa_end,
                 written, out_stream, stream_raised, faults>>
  /\ UNCHANGED notPlay

(* play_stream_audio: the stream is exhausted; a non-empty text_buffer is   *)
(* submitted as the last task                                               *)
StreamEnds ==
  /\ psa_pc = "loop"
  /\ \/ submitted < MaxSentences /\ SubmitTask
     \/ UNCHANGED <<submitted, task>>
  /\ psa_pc' = "result"
  /\ UNCHANGED <<turn, transcription_lock, audio_queue, pa_pc, pa_end, written,
                 out_stream, stream_raised, faults>>
  /\ UNCHANGED notPlay

(* play_stream_audio: iterating the stream raises; control leaves the with  *)
(* block of the executor                                                    *)
StreamRaises ==
  /\ faults < MaxFaults
  /\ faults' = faults + 1
  /\ psa_pc = "loop"
  /\ psa_pc' = "shutdown"
  /\ stream_raised' = TRUE
  /\ UNCHANGED <<turn, submitted, task, transcription_lock, audio_queue, pa_pc,
                 pa_end, written, out_stream>>
  /\ UNCHANGED notPlay

TaskOver(i) == task[i] \in {"none", "done", "failed"}

(* play_stream_audio: future.result() of the last submitted task; it        *)
(* returns or re-raises once that task is over                              *)
FutureResult ==
  /\ psa_pc = "result"
  /\ submitted > 0 => TaskOver(submitted)
  /\ psa_pc' = "shutdown"
  /\ UNCHANGED <<turn, submitted, task, transcription_lock, audio_queue, pa_pc,
                 pa_end, written, out_stream, stream_raised, faults>>
  /\ UNCHANGED notPlay

(* Mutant of ExecutorShutdown: the executor is left without waiting for its *)
(* workers.                                                                *)
ExecutorShutdown_NoWait ==
  /\ psa_pc = "shutdown"
  /\ psa_pc' = "stop_audio"
  /\ UNCHANGED <<turn, submitted, task, transcription_lock, audio_queue, pa_pc,
                 pa_end, written, out_stream, stream_raised, faults>>
  /\ UNCHANGED notPlay

(* ThreadPoolExecutor.__exit__: shutdown(wait=True) joins every worker *)
ExecutorShutdown ==
  /\ psa_pc = "shutdown"
  /\ \A i \in Sentences : TaskOver(i)
  /\ psa_pc' = "stop_audio"
  /\ UNCHANGED <<turn, submitted, task, transcription_lock, audio_queue, pa_pc,
                 pa_end, written, out_stream, stream_raised, faults>>
  /\ UNCHANGED notPlay

(* Mutant of stop_audio: no marker is put. *)
stop_audio_NoMarker ==
  audio_queue' = audio_queue

(* stop_audio: self.audio_queue.put(np.array([])) *)
stop_audio ==
  audio_queue' = Append(audio_queue, StopItem(turn))

(* play_stream_audio, finally: self.stop_audio() *)
SendStopSignal ==
  /\ psa_pc = "stop_audio"
  /\ stop_audio
  /\ psa_pc' = "join"
  /\ UNCHANGED <<turn, submitted, task, transcription_lock, pa_pc, pa_end,
                 written, out_stream, stream_raised, faults>>
  /\ UNCHANGED notPlay

(* Mutant of JoinAudioThread: return without waiting for the thread. *)
JoinAudioThread_NoWait ==
  /\ psa_pc = "join"
  /\ psa_pc' = "returned"
  /\ UNCHANGED <<turn, submitted, task, transcription_lock, audio_queue, pa_pc,
                 pa_end, written, out_stream, stream_raised, faults>>
  /\ UNCHANGED notPlay

(* play_stream_audio, finally: audio_thread.join(), then return *)
JoinAudioThread ==
  /\ psa_pc = "join"
  /\ pa_pc = "done"
  /\ psa_pc' = "returned"
  /\ UNCHANGED <<turn, submitted, task, transcription_lock, audio_queue, pa_pc,
                 pa_end, written, out_stream, stream_raised, faults>>
  /\ UNCHANGED notPlay

(* main loop: the next voice turn calls play_stream_audio on the same       *)
(* AudioService, hence on the same audio_queue and lock                     *)
NextTurn ==
  /\ psa_pc = "returned"
  /\ turn < MaxTurns
  /\ turn' = turn + 1
  /\ psa_pc' = "start"
  /\ submitted' = 0
  /\ task' = NoTasks
  /\ pa_pc' = "idle"
  /\ pa_end' = NoEnd
  /\ written' = <<>>
  /\ stream_raised' = FALSE
  /\ UNCHANGED <<transcription_lock, audio_queue, out_stream, faults>>
  /\ UNCHANGED notPlay

(* process_speech: with self.transcription_lock (threading.Lock gives no    *)
(* order among the waiting workers)                                         *)
AcquireLock(i) ==
  /\ task[i] = "queued"
  /\ transcription_lock = 0
  /\ transcription_lock' = i
  /\ task' = [task EXCEPT ![i] = "tts"]
  /\ UNCHANGED <<turn, psa_pc, submitted, audio_queue, pa_pc, pa_end, written,
                 out_stream, stream_raised, faults>>
  /\ UNCHANGED notPlay

(* process_speech: the TTS call returns; the audio is put on the queue and  *)
(* the lock is released                                                     *)
SpeechReceived(i) ==
  /\ task[i] = "tts"
  /\ audio_queue' = Append(audio_queue, AudioItem(turn, i))
  /\ transcription_lock' = 0
  /\ task' = [task EXCEPT ![i] = "done"]
  /\ UNCHANGED <<turn, psa_pc, submitted, pa_pc, pa_end, written, out_stream,
                 stream_raised, faults>>
  /\ UNCHANGED notPlay

(* Mutant of SpeechFails: the lock stays with the failed task. *)
SpeechFails_KeepsLock(i) ==
  /\ faults < MaxFaults
  /\ faults' = faults + 1
  /\ task[i] = "tts"
  /\ task' = [task EXCEPT ![i] = "failing"]
  /\ UNCHANGED <<turn, psa_pc, submitted, transcription_lock, audio_queue,
                 pa_pc, pa_end, written, out_stream, stream_raised>>
  /\ UNCHANGED notPlay

(* process_speech: the TTS call raises; leaving the with block releases the *)
(* lock before the except branch runs                                       *)
SpeechFails(i) ==
  /\ faults < MaxFaults
  /\ faults' = faults + 1
  /\ task[i] = "tts"
  /\ transcription_lock' = 0
  /\ task' = [task EXCEPT ![i] = "failing"]
  /\ UNCHANGED <<turn, psa_pc, submitted, audio_queue, pa_pc, pa_end, written,
                 out_stream, stream_raised>>
  /\ UNCHANGED notPlay

(* process_speech, except: self.audio_queue.put(np.array([])), then raise   *)
PutEndSignal(i) ==
  /\ task[i] = "failing"
  /\ audio_queue' = Append(audio_queue, FailItem(turn, i))
  /\ task' = [task EXCEPT ![i] = "failed"]
  /\ UNCHANGED <<turn, psa_pc, submitted, transcription_lock, pa_pc, pa_end,
                 written, out_stream, stream_raised, faults>>
  /\ UNCHANGED notPlay

(* play_audio: with sd.OutputStream(...) *)
OpenOutput ==
  /\ pa_pc = "open"
  /\ pa_pc' = "get"
  /\ out_stream' = "open"
  /\ UNCHANGED <<turn, psa_pc, submitted, task, transcription_lock, audio_queue,
                 pa_end, written, stream_raised, faults>>
  /\ UNCHANGED notPlay

(* play_audio: opening the device raises; except logs, the thread ends *)
OpenOutputFails ==
  /\ faults < MaxFaults
  /\ faults' = faults + 1
  /\ pa_pc = "open"
  /\ pa_pc' = "done"
  /\ pa_end' = DeviceError
  /\ UNCHANGED <<turn, psa_pc, submitted, task, transcription_lock, audio_queue,
                 written, out_stream, stream_raised>>
  /\ UNCHANGED notPlay

(* play_audio: audio_queue.get() returns audio; stream_audio.write(it) *)
PlayChunk ==
  /\ pa_pc = "get"
  /\ audio_queue # <<>>
  /\ ~IsEndSignal(Head(audio_queue))
  /\ written' = Append(written, Head(audio_queue))
  /\ audio_queue' = Tail(audio_queue)
  /\ UNCHANGED <<turn, psa_pc, submitted, task, transcription_lock, pa_pc,
                 pa_end, out_stream, stream_raised, faults>>
  /\ UNCHANGED notPlay

(* play_audio: audio_queue.get() returns an array of size 0: break *)
PlayEndSignal ==
  /\ pa_pc = "get"
  /\ audio_queue # <<>>
  /\ IsEndSignal(Head(audio_queue))
  /\ pa_end' = Head(audio_queue)
  /\ audio_queue' = Tail(audio_queue)
  /\ pa_pc' = "done"
  /\ out_stream' = "closed"
  /\ UNCHANGED <<turn, psa_pc, submitted, task, transcription_lock, written,
                 stream_raised, faults>>
  /\ UNCHANGED notPlay

(* play_audio: stream_audio.write raises; except logs, the with block       *)
(* closes the stream and the thread ends                                    *)
PlayWriteFails ==
  /\ faults < MaxFaults
  /\ faults' = faults + 1
  /\ pa_pc = "get"
  /\ audio_queue # <<>>
  /\ ~IsEndSignal(Head(audio_queue))
  /\ audio_queue' = Tail(audio_queue)
  /\ pa_end' = DeviceError
  /\ pa_pc' = "done"
  /\ out_stream' = "closed"
  /\ UNCHANGED <<turn, psa_pc, submitted, task, transcription_lock, written,
                 stream_raised>>
  /\ UNCHANGED notPlay

PlayNext ==
  \/ StartAudioThread
  \/ SubmitSentence
  \/ StreamEnds
  \/ StreamRaises
  \/ FutureResult
  \/ ExecutorShutdown
  \/ SendStopSignal
  \/ JoinAudioThread
  \/ NextTurn
  \/ \E i \in Sentences : AcquireLock(i)
  \/ \E i \in Sentences : SpeechReceived(i)
  \/ \E i \in Sentences : SpeechFails(i)
  \/ \E i \in Sentences : PutEndSignal(i)
  \/ OpenOutput
  \/ OpenOutputFails
  \/ PlayChunk
  \/ PlayEndSignal
  \/ PlayWriteFails


(***************************************************************************)
(* StreamSplitter                                                          *)
(***************************************************************************)
Fragments == {"a", "b"}
Consumers == 1..MaxConsumers

RECURSIVE SeqsUpTo(_, _)
SeqsUpTo(S, n) ==
  IF n = 0 THEN {<<>>}
  ELSE LET shorter == SeqsUpTo(S, n - 1)
       IN  shorter \cup {Append(q, x) : q \in {r \in shorter : Len(r) = n - 1}, x \in S}

(* StreamSplitter.__init__ over one of the given streams *)
TeeInit(sources, raising) ==
  /\ tee_source \in sources
  /\ tee_raises \in raising
  /\ tee_pulled = 0
  /\ chunks = <<>>
  /\ finished = FALSE
  /\ reader_pc = "idle"
  /\ get_pc = [c \in Consumers |-> "while"]
  /\ get_index = [c \in Consumers |-> 0]
  /\ get_out = [c \in Consumers |-> <<>>]

(* start(): Thread(target=_read_stream).start() *)
SplitterStart ==
  /\ reader_pc = "idle"
  /\ reader_pc' = "loop"
  /\ UNCHANGED <<tee_source, tee_raises, tee_pulled, chunks, finished, get_pc,
                 get_index, get_out>>
  /\ UNCHANGED notTee

(* _read_stream: for chunk in self.stream: self.chunks.append(chunk) *)
ReadChunk ==
  /\ reader_pc = "loop"
  /\ tee_pulled < Len(tee_source)
  /\ tee_pulled' = tee_pulled + 1
  /\ chunks' = Append(chunks, tee_source[tee_pulled + 1])
  /\ UNCHANGED <<tee_source, tee_raises, finished, reader_pc, get_pc, get_index,
                 get_out>>
  /\ UNCHANGED notTee

(* _read_stream: the stream is exhausted: self.finished = True *)
ReadFinished ==
  /\ reader_pc = "loop"
  /\ tee_pulled = Len(tee_source)
  /\ ~tee_raises
  /\ finished' = TRUE
  /\ reader_pc' = "done"
  /\ UNCHANGED <<tee_source, tee_raises, tee_pulled, chunks, get_pc, get_index,
                 get_out>>
  /\ UNCHANGED notTee

(* _read_stream: the stream raises; the thread dies with the exception and *)
(* self.finished is never assigned                                         *)
ReadRaises ==
  /\ reader_pc = "loop"
  /\ tee_pulled = Len(tee_source)
  /\ tee_raises
  /\ reader_pc' = "raised"
  /\ UNCHANGED <<tee_source, tee_raises, tee_pulled, chunks, finished, get_pc,
                 get_index, get_out>>
  /\ UNCHANGED notTee

(* Mutant of GetTestFinished: the loop condition is only "not finished", so *)
(* the generator stops as soon as it sees the flag.                        *)
GetTestFinished_OnlyFlag(c) ==
  /\ reader_pc # "idle"
  /\ get_pc[c] = "while"
  /\ get_pc' = [get_pc EXCEPT ![c] = IF finished THEN "done" ELSE "body"]
  /\ UNCHANGED <<tee_source, tee_raises, tee_pulled, chunks, finished, reader_pc,
                 get_index, get_out>>
  /\ UNCHANGED notTee

(* get(): while not self.finished ...: the left operand of the condition *)
GetTestFinished(c) ==
  /\ reader_pc # "idle"
  /\ get_pc[c] = "while"
  /\ get_pc' = [get_pc EXCEPT ![c] = IF finished THEN "while_len" ELSE "body"]
  /\ UNCHANGED <<tee_source, tee_raises, tee_pulled, chunks, finished, reader_pc,
                 get_index, get_out>>
  /\ UNCHANGED notTee

(* Mutant of GetTestLen: the comparison is off by one, so the generator    *)
(* stops with one buffered chunk left.                                     *)
GetTestLen_OffByOne(c) ==
  /\ get_pc[c] = "while_len"
  /\ get_pc' = [get_pc EXCEPT ![c] =
                  IF get_index[c] + 1 < Len(chunks) THEN "body" ELSE "done"]
  /\ UNCHANGED <<tee_source, tee_raises, tee_pulled, chunks, finished, reader_pc,
                 get_index, get_out>>
  /\ UNCHANGED notTee

(* get(): ... or index < len(self.chunks): read after finished was seen set *)
GetTestLen(c) ==
  /\ get_pc[c] = "while_len"
  /\ get_pc' = [get_pc EXCEPT ![c] =
                  IF get_index[c] < Len(chunks) THEN "body" ELSE "done"]
  /\ UNCHANGED <<tee_source, tee_raises, tee_pulled, chunks, finished, reader_pc,
                 get_index, get_out>>
  /\ UNCHANGED notTee

(* Mutant of GetYield: the index is shared, so a chunk that one generator   *)
(* has yielded is consumed for the others.                                 *)
GetYield_SharedIndex(c) ==
  /\ get_pc[c] = "body"
  /\ get_index[c] < Len(chunks)
  /\ get_out' = [get_out EXCEPT ![c] = Append(@, chunks[get_index[c] + 1])]
  /\ get_index' = [d \in Consumers |-> get_index[c] + 1]
  /\ get_pc' = [get_pc EXCEPT ![c] = "while"]
  /\ UNCHANGED <<tee_source, tee_raises, tee_pulled, chunks, finished, reader_pc>>
  /\ UNCHANGED notTee

(* get(): if index < len(self.chunks): yield self.chunks[index]; index += 1 *)
GetYield(c) ==
  /\ get_pc[c] = "body"
  /\ get_index[c] < Len(chunks)
  /\ get_out' = [get_out EXCEPT ![c] = Append(@, chunks[get_index[c] + 1])]
  /\ get_index' = [get_index EXCEPT ![c] = @ + 1]
  /\ get_pc' = [get_pc EXCEPT ![c] = "while"]
  /\ UNCHANGED <<tee_source, tee_raises, tee_pulled, chunks, finished, reader_pc>>
  /\ UNCHANGED notTee

(* Mutant of GetSpin: a consumer that has caught up pulls the next chunk    *)
(* from the source itself.                                                 *)
GetSpin_PullsSource(c) ==
  /\ get_pc[c] = "body"
  /\ ~(get_index[c] < Len(chunks))
  /\ get_pc' = [get_pc EXCEPT ![c] = "while"]
  /\ IF tee_pulled < Len(tee_source)
     THEN /\ tee_pulled' = tee_pulled + 1
          /\ chunks' = Append(chunks, tee_source[tee_pulled + 1])
     ELSE UNCHANGED <<tee_pulled, chunks>>
  /\ UNCHANGED <<tee_source, tee_raises, finished, reader_pc, get_index, get_out>>
  /\ UNCHANGED notTee

(* get(): else: continue *)
GetSpin(c) ==
  /\ get_pc[c] = "body"
  /\ ~(get_index[c] < Len(chunks))
  /\ get_pc' = [get_pc EXCEPT ![c] = "while"]
  /\ UNCHANGED <<tee_source, tee_raises, tee_pulled, chunks, finished, reader_pc,
                 get_index, get_out>>
  /\ UNCHANGED notTee

TeeNext ==
  \/ SplitterStart
  \/ ReadChunk
  \/ ReadFinished
  \/ ReadRaises
  \/ \E c \in Consumers : GetTestFinished(c)
  \/ \E c \in Consumers : GetTestLen(c)
  \/ \E c \in Consumers : GetYield(c)
  \/ \E c \in Consumers : GetSpin(c)

TeeIdle == TeeInit({<<>>}, {FALSE})

(***************************************************************************)
(* AudioService.record                                                     *)
(***************************************************************************)
(* The frame source: lead non-speech frames, burst speech frames, gap      *)
(* non-speech frames, again speech frames, then non-speech for ever.       *)
IsSpeechAt(m, n) ==
  \/ m.lead < n /\ n <= m.lead + m.burst
  \/ m.lead + m.burst + m.gap < n /\ n <= m.lead + m.burst + m.gap + m.again

OnsetFrames == OnsetWindowMs \div FrameMs
SilenceFrames == MaxSilenceMs \div FrameMs

Near(n) == {k \in (n - MaxSlack)..(n + MaxSlack) : k >= 0}

Mics ==
  {[lead |-> 0, burst |-> 0, gap |-> 0, again |-> 0]}
  \cup {[lead |-> l, burst |-> b, gap |-> 0, again |-> 0] :
          l \in Near(0) \cup Near(OnsetFrames), b \in 1..MaxBurst}
  \cup {[lead |-> l, burst |-> b, gap |-> g, again |-> 1] :
          l \in Near(0) \cup Near(OnsetFrames), b \in 1..MaxBurst,
          g \in (Near(0) \ {0}) \cup Near(SilenceFrames)}

(* AudioRecordResult; data is the recorded frames, <<>> standing for None  *)
(* when has_data is false.                                                 *)
(* Mutant of AudioRecordResult: data is present whatever was passed. *)
AudioRecordResult_DataAlways(success, data, has_data, silence_timeout) ==
  [success |-> success, data |-> data, has_data |-> TRUE,
   silence_timeout |-> silence_timeout]

AudioRecordResult(success, data, has_data, silence_timeout) ==
  [success |-> success, data |-> data, has_data |-> has_data,
   silence_timeout |-> silence_timeout]

NoResult == AudioRecordResult(FALSE, <<>>, FALSE, FALSE)

RecInit(mics) ==
  /\ mic \in mics
  /\ rec_pc = "call"
  /\ in_stream = "closed"
  /\ audio_frames = <<>>
  /\ silence_duration = 0
  /\ recording_started = FALSE
  /\ rec_elapsed = 0
  /\ rec_result = NoResult

(* record: with sd.InputStream(...) as stream; start_time = time.time() *)
RecordOpen ==
  /\ rec_pc = "call"
  /\ rec_pc' = "loop"
  /\ in_stream' = "open"
  /\ UNCHANGED <<mic, audio_frames, silence_duration, recording_started,
                 rec_elapsed, rec_result>>
  /\ UNCHANGED notRec

(* record: sd.InputStream(...) raises: no device *)
RecordOpenFails ==
  /\ rec_pc = "call"
  /\ rec_pc' = "raised"
  /\ UNCHANGED <<mic, in_stream, audio_frames, silence_duration,
                 recording_started, rec_elapsed, rec_result>>
  /\ UNCHANGED notRec

(* Mutant of SilenceOnFrame: a speech frame does not reset the counter. *)
SilenceOnFrame_NoReset(speech, silence) == silence

(* record: if self.is_speech(frame): silence_duration = 0 *)
SilenceOnFrame(speech, silence) == IF speech THEN 0 ELSE silence

(* Mutant of OnsetTimedOut: the test does not look at recording_started. *)
OnsetTimedOut_IgnoresStarted(started, elapsed) == elapsed > OnsetWindowMs

(* Mutant of OnsetTimedOut: >= in place of >. *)
OnsetTimedOut_AtLeast(started, elapsed) == ~started /\ elapsed >= OnsetWindowMs

(* record: if not recording_started and (time.time() - start_time) > 3 *)
OnsetTimedOut(started, elapsed) == ~started /\ elapsed > OnsetWindowMs

(* record: one iteration of the while loop.  stream.read blocks until the  *)
(* frame is complete, so the n-th check of the clock comes n frame         *)
(* durations after the start, plus the time spent since the read returned. *)
(* A break leaves the with block and runs the test "if not audio_frames:   *)
(* raise AudioRecordingFailed" before the result is built.                 *)
RecordFrame ==
  /\ rec_pc = "loop"
  /\ \E lag \in 0..MaxLagMs :
       LET n == Len(audio_frames) + 1
           speech == IsSpeechAt(mic, n)
           silence == SilenceOnFrame(speech, silence_duration)
           started == recording_started \/ speech
           elapsed == n * FrameMs + lag
       IN  /\ audio_frames' = Append(audio_frames, n)
           /\ recording_started' = started
           /\ rec_elapsed' = elapsed
           /\ IF OnsetTimedOut(started, elapsed)
              THEN /\ rec_pc' = "timed_out"
                   /\ rec_result' = AudioRecordResult(FALSE, <<>>, FALSE, TRUE)
                   /\ in_stream' = "closed"
                   /\ silence_duration' = silence
              ELSE IF started /\ silence > MaxSilenceMs
              THEN /\ IF audio_frames' = <<>>
                      THEN /\ rec_pc' = "recording_failed"
                           /\ UNCHANGED rec_result
                      ELSE /\ rec_pc' = "success"
                           /\ rec_result' =
                                AudioRecordResult(TRUE, audio_frames', TRUE, FALSE)
                   /\ in_stream' = "closed"
                   /\ silence_duration' = silence
              ELSE /\ rec_pc' = "loop"
                   /\ silence_duration' =
                        IF started THEN silence + FrameMs ELSE silence
                   /\ UNCHANGED <<rec_result, in_stream>>
  /\ UNCHANGED mic
  /\ UNCHANGED notRec

(* Mutant of RecordReadRaises: the stream is left open. *)
RecordReadRaises_NoClose ==
  /\ rec_pc = "loop"
  /\ rec_pc' = "raised"
  /\ UNCHANGED <<mic, in_stream, audio_frames, silence_duration,
                 recording_started, rec_elapsed, rec_result>>
  /\ UNCHANGED notRec

(* record: stream.read raises (device fault); the with block closes the    *)
(* stream and the exception leaves record                                  *)
RecordReadRaises ==
  /\ rec_pc = "loop"
  /\ rec_pc' = "raised"
  /\ in_stream' = "closed"
  /\ UNCHANGED <<mic, audio_frames, silence_duration, recording_started,
                 rec_elapsed, rec_result>>
  /\ UNCHANGED notRec

RecNext ==
  \/ RecordOpen
  \/ RecordOpenFails
  \/ RecordFrame
  \/ RecordReadRaises

RecIdle == RecInit({[lead |-> 0, burst |-> 0, gap |-> 0, again |-> 0]})

(***************************************************************************)
(* scripts/python/openai-talk.py: cancellation by stop_flag                *)
(***************************************************************************)
(* Items of the script's audio_queue: the chunk part of sentence seq, and  *)
(* None, the end marker.                                                   *)
Chunk(i, k) == [seq |-> i, part |-> k]
None == [seq |-> 0, part |-> 0]

TalkInit ==
  /\ stop_flag = FALSE
  /\ talk_pc = "start"
  /\ talk_submitted = 0
  /\ talk_task = [i \in Sentences |-> "none"]
  /\ talk_part = [i \in Sentences |-> 0]
  /\ talk_lock = 0
  /\ talk_queue = <<>>
  /\ tp_pc = "idle"
  /\ tp_item = None
  /\ talk_written = <<>>
  /\ talk_out = "closed"
  /\ ww_pc = "idle"
  /\ woken = FALSE
  /\ writes_after_stop = 0
  /\ polls_after_stop = 0

(* stream_chat_with_gpt_and_speak: wakeword_thread.start(),                *)
(* audio_thread.start()                                                    *)
TalkStartThreads ==
  /\ talk_pc = "start"
  /\ talk_pc' = "stream"
  /\ ww_pc' = "listening"
  /\ tp_pc' = "open"
  /\ UNCHANGED <<stop_flag, talk_submitted, talk_task, talk_part, talk_lock,
                 talk_queue, tp_item, talk_written, talk_out, woken,
                 writes_after_stop, polls_after_stop>>
  /\ UNCHANGED notTalk

(* for chunk in stream: if stop_flag.is_set(): executor.shutdown(wait=False);*)
(* break                                                                   *)
TalkNextChunk ==
  /\ talk_pc = "stream"
  /\ talk_pc' = IF stop_flag THEN "after" ELSE "body"
  /\ UNCHANGED <<stop_flag, talk_submitted, talk_task, talk_part, talk_lock,
                 talk_queue, tp_pc, tp_item, talk_written, talk_out, ww_pc,
                 woken, writes_after_stop, polls_after_stop>>
  /\ UNCHANGED notTalk

(* loop body: if sentence and not stop_flag.is_set(): the test; the chunk  *)
(* completes a sentence or does not                                        *)
TalkBody ==
  /\ talk_pc = "body"
  /\ \/ /\ talk_submitted < MaxSentences
        /\ ~stop_flag
        /\ talk_pc' = "submit"
     \/ talk_pc' = "stream"
  /\ UNCHANGED <<stop_flag, talk_submitted, talk_task, talk_part, talk_lock,
                 talk_queue, tp_pc, tp_item, talk_written, talk_out, ww_pc,
                 woken, writes_after_stop, polls_after_stop>>
  /\ UNCHANGED notTalk

(* loop body: future = executor.submit(process_speech, client, sentence,   *)
(* chunk_size), after the test of the flag                                 *)
TalkSubmit ==
  /\ talk_pc = "submit"
  /\ talk_submitted' = talk_submitted + 1
  /\ talk_task' = [talk_task EXCEPT ![talk_submitted + 1] = "queued"]
  /\ talk_pc' = "stream"
  /\ UNCHANGED <<stop_flag, talk_part, talk_lock, talk_queue, tp_pc, tp_item,
                 talk_written, talk_out, ww_pc, woken, writes_after_stop,
                 polls_after_stop>>
  /\ UNCHANGED notTalk

(* the stream is exhausted *)
TalkStreamEnds ==
  /\ talk_pc = "stream"
  /\ talk_pc' = "after"
  /\ UNCHANGED <<stop_flag, talk_submitted, talk_task, talk_part, talk_lock,
                 talk_queue, tp_pc, tp_item, talk_written, talk_out, ww_pc,
                 woken, writes_after_stop, polls_after_stop>>
  /\ UNCHANGED notTalk

TalkTaskOver(i) == talk_task[i] \in {"none", "over"}

(* if stop_flag.is_set(): skip; elif future: future.result() *)
TalkFutureResult ==
  /\ talk_pc = "after"
  /\ (~stop_flag /\ talk_submitted > 0) => TalkTaskOver(talk_submitted)
  /\ talk_pc' = "finally"
  /\ UNCHANGED <<stop_flag, talk_submitted, talk_task, talk_part, talk_lock,
                 talk_queue, tp_pc, tp_item, talk_written, talk_out, ww_pc,
                 woken, writes_after_stop, polls_after_stop>>
  /\ UNCHANGED notTalk

(* finally: if stop_flag.is_set(): executor.shutdown(wait=False);          *)
(* audio_queue.put(None)                                                   *)
TalkFinally ==
  /\ talk_pc = "finally"
  /\ talk_queue' = IF stop_flag THEN Append(talk_queue, None) ELSE talk_queue
  /\ talk_pc' = "exit_pool"
  /\ UNCHANGED <<stop_flag, talk_submitted, talk_task, talk_part, talk_lock,
                 tp_pc, tp_item, talk_written, talk_out, ww_pc, woken,
                 writes_after_stop, polls_after_stop>>
  /\ UNCHANGED notTalk

(* leaving "with ThreadPoolExecutor()": shutdown(wait=True); then          *)
(* audio_queue.put(None)                                                   *)
TalkPutNone ==
  /\ talk_pc = "exit_pool"
  /\ \A i \in Sentences : TalkTaskOver(i)
  /\ talk_queue' = Append(talk_queue, None)
  /\ talk_pc' = "join"
  /\ UNCHANGED <<stop_flag, talk_submitted, talk_task, talk_part, talk_lock,
                 tp_pc, tp_item, talk_written, talk_out, ww_pc, woken,
                 writes_after_stop, polls_after_stop>>
  /\ UNCHANGED notTalk

(* audio_thread.join(); wakeword_thread.join(); stop_flag.clear() *)
TalkJoinAndClear ==
  /\ talk_pc = "join"
  /\ tp_pc = "done"
  /\ ww_pc = "done"
  /\ stop_flag' = FALSE
  /\ talk_pc' = "returned"
  /\ UNCHANGED <<talk_submitted, talk_task, talk_part, talk_lock, talk_queue,
                 tp_pc, tp_item, talk_written, talk_out, ww_pc, woken,
                 writes_after_stop, polls_after_stop>>
  /\ UNCHANGED notTalk

(* process_speech: if stop_flag.is_set(): return *)
TalkTaskBegin(i) ==
  /\ talk_task[i] = "queued"
  /\ talk_task' = [talk_task EXCEPT ![i] = IF stop_flag THEN "over" ELSE "wait"]
  /\ UNCHANGED <<stop_flag, talk_pc, talk_submitted, talk_part, talk_lock,
                 talk_queue, tp_pc, tp_item, talk_written, talk_out, ww_pc,
                 woken, writes_after_stop, polls_after_stop>>
  /\ UNCHANGED notTalk

(* process_speech: with transcription_lock: if stop_flag.is_set(): return; *)
(* else the TTS request is made                                            *)
TalkTaskLock(i) ==
  /\ talk_task[i] = "wait"
  /\ talk_lock = 0
  /\ IF stop_flag
     THEN /\ talk_task' = [talk_task EXCEPT ![i] = "over"]
          /\ UNCHANGED talk_lock
     ELSE /\ talk_task' = [talk_task EXCEPT ![i] = "iter"]
          /\ talk_lock' = i
  /\ UNCHANGED <<stop_flag, talk_pc, talk_submitted, talk_part, talk_queue,
                 tp_pc, tp_item, talk_written, talk_out, ww_pc, woken,
                 writes_after_stop, polls_after_stop>>
  /\ UNCHANGED notTalk

(* process_speech: for audio_chunk in response_audio.iter_bytes(...):      *)
(* if stop_flag.is_set(): response_audio.close(); return                   *)
TalkTaskChunk(i) ==
  /\ talk_task[i] = "iter"
  /\ talk_part[i] < MaxChunks
  /\ IF stop_flag
     THEN /\ talk_task' = [talk_task EXCEPT ![i] = "over"]
          /\ talk_lock' = 0
          /\ UNCHANGED talk_part
     ELSE /\ talk_task' = [talk_task EXCEPT ![i] = "put"]
          /\ talk_part' = [talk_part EXCEPT ![i] = @ + 1]
          /\ UNCHANGED talk_lock
  /\ UNCHANGED <<stop_flag, talk_pc, talk_submitted, talk_queue, tp_pc,
                 tp_item, talk_written, talk_out, ww_pc, woken,
                 writes_after_stop, polls_after_stop>>
  /\ UNCHANGED notTalk

(* process_speech: audio_queue.put(audio_data) *)
TalkTaskPut(i) ==
  /\ talk_task[i] = "put"
  /\ talk_queue' = Append(talk_queue, Chunk(i, talk_part[i]))
  /\ talk_task' = [talk_task EXCEPT ![i] = "iter"]
  /\ UNCHANGED <<stop_flag, talk_pc, talk_submitted, talk_part, talk_lock,
                 tp_pc, tp_item, talk_written, talk_out, ww_pc, woken,
                 writes_after_stop, polls_after_stop>>
  /\ UNCHANGED notTalk

(* process_speech: the response has no more bytes, or the request raised;  *)
(* the with blocks release the lock                                        *)
TalkTaskEnd(i) ==
  /\ talk_task[i] = "iter"
  /\ talk_task' = [talk_task EXCEPT ![i] = "over"]
  /\ talk_lock' = 0
  /\ UNCHANGED <<stop_flag, talk_pc, talk_submitted, talk_part, talk_queue,
                 tp_pc, tp_item, talk_written, talk_out, ww_pc, woken,
                 writes_after_stop, polls_after_stop>>
  /\ UNCHANGED notTalk

(* play_audio: sd.OutputStream(...); stream_audio.start() *)
TalkPlayOpen ==
  /\ tp_pc = "open"
  /\ tp_pc' = "check"
  /\ talk_out' = "open"
  /\ UNCHANGED <<stop_flag, talk_pc, talk_submitted, talk_task, talk_part,
                 talk_lock, talk_queue, tp_item, talk_written, ww_pc, woken,
                 writes_after_stop, polls_after_stop>>
  /\ UNCHANGED notTalk

(* Mutant of TalkPlayCheck: the loop does not test stop_flag. *)
TalkPlayCheck_NoTest ==
  /\ tp_pc = "check"
  /\ tp_pc' = "get"
  /\ UNCHANGED <<stop_flag, talk_pc, talk_submitted, talk_task, talk_part,
                 talk_lock, talk_queue, tp_item, talk_written, talk_out, ww_pc,
                 woken, writes_after_stop, polls_after_stop>>
  /\ UNCHANGED notTalk

(* play_audio: while True: if stop_flag.is_set(): break *)
TalkPlayCheck ==
  /\ tp_pc = "check"
  /\ tp_pc' = IF stop_flag THEN "close" ELSE "get"
  /\ UNCHANGED <<stop_flag, talk_pc, talk_submitted, talk_task, talk_part,
                 talk_lock, talk_queue, tp_item, talk_written, talk_out, ww_pc,
                 woken, writes_after_stop, polls_after_stop>>
  /\ UNCHANGED notTalk

Polled == IF stop_flag THEN polls_after_stop + 1 ELSE polls_after_stop

(* play_audio: audio_data = audio_queue.get(timeout=1) returns an item;    *)
(* if audio_data is None: stop_flag.set(); break                           *)
TalkPlayGet ==
  /\ tp_pc = "get"
  /\ talk_queue # <<>>
  /\ talk_queue' = Tail(talk_queue)
  /\ polls_after_stop' = Polled
  /\ IF Head(talk_queue) = None
     THEN /\ stop_flag' = TRUE
          /\ tp_pc' = "close"
          /\ UNCHANGED tp_item
     ELSE /\ tp_item' = Head(talk_queue)
          /\ tp_pc' = "write"
          /\ UNCHANGED stop_flag
  /\ UNCHANGED <<talk_pc, talk_submitted, talk_task, talk_part, talk_lock,
                 talk_written, talk_out, ww_pc, woken, writes_after_stop>>
  /\ UNCHANGED notTalk

(* play_audio: the get times out after one second: except queue.Empty:     *)
(* continue                                                                *)
TalkPlayEmpty ==
  /\ tp_pc = "get"
  /\ talk_queue = <<>>
  /\ polls_after_stop' = Polled
  /\ tp_pc' = "check"
  /\ UNCHANGED <<stop_flag, talk_pc, talk_submitted, talk_task, talk_part,
                 talk_lock, talk_queue, tp_item, talk_written, talk_out, ww_pc,
                 woken, writes_after_stop>>
  /\ UNCHANGED notTalk

(* play_audio: stream_audio.write(audio_data) *)
TalkPlayWrite ==
  /\ tp_pc = "write"
  /\ talk_written' = Append(talk_written, tp_item)
  /\ writes_after_stop' =
       IF stop_flag THEN writes_after_stop + 1 ELSE writes_after_stop
  /\ tp_pc' = "check"
  /\ UNCHANGED <<stop_flag, talk_pc, talk_submitted, talk_task, talk_part,
                 talk_lock, talk_queue, tp_item, talk_out, ww_pc, woken,
                 polls_after_stop>>
  /\ UNCHANGED notTalk

(* play_audio: stream_audio.stop(); stream_audio.close() *)
TalkPlayClose ==
  /\ tp_pc = "close"
  /\ talk_out' = "closed"
  /\ tp_pc' = "clear"
  /\ UNCHANGED <<stop_flag, talk_pc, talk_submitted, talk_task, talk_part,
                 talk_lock, talk_queue, tp_item, talk_written, ww_pc, woken,
                 writes_after_stop, polls_after_stop>>
  /\ UNCHANGED notTalk

(* play_audio: with audio_queue.mutex: audio_queue.queue.clear() *)
TalkPlayClear ==
  /\ tp_pc = "clear"
  /\ talk_queue' = <<>>
  /\ tp_pc' = "done"
  /\ UNCHANGED <<stop_flag, talk_pc, talk_submitted, talk_task, talk_part,
                 talk_lock, tp_item, talk_written, talk_out, ww_pc, woken,
                 writes_after_stop, polls_after_stop>>
  /\ UNCHANGED notTalk

(* audio_callback: porcupine detects the wake word: stop_flag.set() *)
WakeWord ==
  /\ ww_pc = "listening"
  /\ ~woken
  /\ stop_flag' = TRUE
  /\ woken' = TRUE
  /\ UNCHANGED <<talk_pc, talk_submitted, talk_task, talk_part, talk_lock,
                 talk_queue, tp_pc, tp_item, talk_written, talk_out, ww_pc,
                 writes_after_stop, polls_after_stop>>
  /\ UNCHANGED notTalk

(* listen_for_wakeword: while not stop_flag.is_set(): sd.sleep(1000) *)
WakeExit ==
  /\ ww_pc = "listening"
  /\ stop_flag
  /\ ww_pc' = "done"
  /\ UNCHANGED <<stop_flag, talk_pc, talk_submitted, talk_task, talk_part,
                 talk_lock, talk_queue, tp_pc, tp_item, talk_written, talk_out,
                 woken, writes_after_stop, polls_after_stop>>
  /\ UNCHANGED notTalk

TalkNext ==
  \/ TalkStartThreads
  \/ TalkNextChunk
  \/ TalkBody
  \/ TalkSubmit
  \/ TalkStreamEnds
  \/ TalkFutureResult
  \/ TalkFinally
  \/ TalkPutNone
  \/ TalkJoinAndClear
  \/ \E i \in Sentences : TalkTaskBegin(i)
  \/ \E i \in Sentences : TalkTaskLock(i)
  \/ \E i \in Sentences : TalkTaskChunk(i)
  \/ \E i \in Sentences : TalkTaskPut(i)
  \/ \E i \in Sentences : TalkTaskEnd(i)
  \/ TalkPlayOpen
  \/ TalkPlayCheck
  \/ TalkPlayGet
  \/ TalkPlayEmpty
  \/ TalkPlayWrite
  \/ TalkPlayClose
  \/ TalkPlayClear
  \/ WakeWord
  \/ WakeExit

(***************************************************************************)
(* AudioService: sentence segmentation                                     *)
(***************************************************************************)
(* "Den Quellcode findest du in der Textausgabe." *)
CodePlaceholder ==
  <<"D","e","n"," ","Q","u","e","l","l","c","o","d","e"," ","f","i",
    "n","d","e","s","t"," ","d","u"," ","i","n"," ","d","e","r"," ",
    "T","e","x","t","a","u","s","g","a","b","e",".">>

(* " (Den Link findest du in der Textausgabe.)" *)
LinkPlaceholder ==
  <<" ","(","D","e","n"," ","L","i","n","k"," ","f","i","n","d","e",
    "s","t"," ","d","u"," ","i","n"," ","d","e","r"," ","T","e","x",
    "t","a","u","s","g","a","b","e",".",")">>

(* the grave accent, which a TLA+ string cannot hold: one character *)
BT == "GRAVE"

Fence == <<BT, BT, BT>>
Whitespace == {" ", "\n", "\t"}

(* t[a - 1 : b], whose bounds Python clamps to the text *)
Slice(t, a, b) ==
  LET lo == IF a < 1 THEN 1 ELSE a
      hi == IF b > Len(t) THEN Len(t) ELSE b
  IN  IF lo > hi THEN <<>> ELSE SubSeq(t, lo, hi)

Take(t, n) == Slice(t, 1, n)
Drop(t, n) == Slice(t, n + 1, Len(t))

(* the least member of a set of positions, 0 if there is none *)
Least(hits) ==
  IF hits = {} THEN 0 ELSE CHOOSE k \in hits : \A j \in hits : k <= j

(* re.search(pat, t[from - 1:]) for a literal pat: the first position at   *)
(* or after from where pat occurs in t, 0 if none                          *)
Find(t, pat, from) ==
  Least({k \in from..(Len(t) - Len(pat) + 1) :
           Slice(t, k, k + Len(pat) - 1) = pat})

(* the first position at or after from whose character is in S, 0 if none *)
FindIn(t, S, from) == Least({k \in from..Len(t) : t[k] \in S})

(* str.strip() *)
Strip(t) ==
  LET Between(first, last) ==
        IF first = 0 THEN <<>> ELSE Slice(t, first, Len(t) + 1 - last)
  IN  Between(Least({k \in 1..Len(t) : t[k] \notin Whitespace}),
              Least({k \in 1..Len(t) : t[Len(t) + 1 - k] \notin Whitespace}))

(* A match of \[([^]]+)]\((https?://[^\s]+?)\) that starts at position i:  *)
(* <<position of "]", position of the closing ")">>, or <<0, 0>>.  The     *)
(* label ends at the first "]", the URL at the first ")" past its first    *)
(* character.                                                              *)
LinkAt(t, i) ==
  LET Scheme(close) ==
        IF Slice(t, close + 2, close + 9) =
             <<"h", "t", "t", "p", "s", ":", "/", "/">> THEN 8
        ELSE IF Slice(t, close + 2, close + 8) =
             <<"h", "t", "t", "p", ":", "/", "/">> THEN 7
        ELSE 0
      Match(close, url, paren) ==
        IF /\ t[i] = "["
           /\ close > i + 1
           /\ close < Len(t) /\ t[close + 1] = "("
           /\ url > close + 2
           /\ paren > 0
           /\ \A k \in url..(paren - 1) : t[k] \notin Whitespace
        THEN <<close, paren>> ELSE <<0, 0>>
      FromUrl(close, url) == Match(close, url, FindIn(t, {")"}, url + 1))
      FromLabel(close) == FromUrl(close, close + 2 + Scheme(close))
  IN  FromLabel(FindIn(t, {"]"}, i + 1))

(* re.sub of the Markdown link pattern by r"\1 (Den Link ...)", from       *)
(* position i on: the leftmost match is replaced and the scan resumes      *)
(* behind it                                                               *)
RECURSIVE SubLinks(_, _)
SubLinks(t, i) ==
  LET Replace(k, m) ==
        Slice(t, i, k - 1) \o Slice(t, k + 1, m[1] - 1) \o LinkPlaceholder
          \o SubLinks(t, m[2] + 1)
      From(k) == IF k = 0 THEN Slice(t, i, Len(t)) ELSE Replace(k, LinkAt(t, k))
  IN  From(Least({k \in i..Len(t) : LinkAt(t, k)[1] > 0}))

(* A match of ``[^`]+`` that starts at position i: the position of its     *)
(* last character, or 0                                                    *)
InlineCodeAt(t, i) ==
  LET Match(tick) ==
        IF /\ Slice(t, i, i + 1) = <<BT, BT>>
           /\ tick > i + 2
           /\ Slice(t, tick, tick + 1) = <<BT, BT>>
        THEN tick + 1 ELSE 0
  IN  Match(FindIn(t, {BT}, i + 2))

(* re.sub(r"``[^`]+``", placeholder, text), from position i on *)
RECURSIVE SubInlineCode(_, _)
SubInlineCode(t, i) ==
  LET Replace(k, e) ==
        Slice(t, i, k - 1) \o CodePlaceholder \o SubInlineCode(t, e + 1)
      From(k) ==
        IF k = 0 THEN Slice(t, i, Len(t)) ELSE Replace(k, InlineCodeAt(t, k))
  IN  From(Least({k \in i..Len(t) : InlineCodeAt(t, k) > 0}))

(* skip_price_numbers: re.sub of the price pattern by lambda m: m.group(), *)
(* which puts every match back unchanged                                   *)
skip_price_numbers(text) == text

(* parse_special_content: <<text, in_code_block>>.  first is the position  *)
(* of the first ``` in text (start_match, or end_match when already inside *)
(* a code block), second that of the next ``` after it.                    *)
parse_special_content(text0, in_code) ==
  LET Fenced(text, first, second) ==
        IF in_code
        THEN IF first > 0
             THEN <<CodePlaceholder \o Drop(text, first + 2), FALSE>>
             ELSE <<CodePlaceholder, TRUE>>
        ELSE IF first > 0
             THEN IF second > 0
                  THEN <<Take(text, first - 1) \o CodePlaceholder
                           \o Drop(text, second + 2), FALSE>>
                  ELSE <<Take(text, first - 1) \o CodePlaceholder, TRUE>>
             ELSE <<text, FALSE>>
      Blocks(text, first) ==
        Fenced(text, first, IF first > 0 THEN Find(text, Fence, first + 3) ELSE 0)
      Inline(fenced) ==
        <<skip_price_numbers(IF fenced[2] THEN fenced[1]
                             ELSE SubInlineCode(fenced[1], 1)),
          fenced[2]>>
      Links(text) == Inline(Blocks(text, Find(text, Fence, 1)))
  IN  Links(SubLinks(text0, 1))

(* re.search(r"[.!?](?=\s|$)", t): the position of the first terminal mark *)
(* that is followed by whitespace or ends the text, 0 if none              *)
SentenceEnd(t) ==
  Least({k \in 1..Len(t) :
           /\ t[k] \in {".", "!", "?"}
           /\ (k = Len(t) \/ t[k + 1] \in Whitespace)})

(* collect_until_sentence_end: <<sentence, remaining, in_code_block>> *)
collect_until_sentence_end(buffer, in_code) ==
  LET Collect(processed_text, inside, end) ==
        IF inside
        THEN <<<<>>, processed_text,
               IF Find(processed_text, Fence, 1) > 0 THEN FALSE ELSE TRUE>>
        ELSE IF end > 0
        THEN <<Strip(Take(processed_text, end)),
               Strip(Drop(processed_text, end)), FALSE>>
        ELSE <<<<>>, buffer, FALSE>>
      Parsed(p) == Collect(p[1], in_code \/ p[2], SentenceEnd(p[1]))
  IN  Parsed(parse_special_content(buffer, in_code))

(* the sets of at most k cut positions in 1..n *)
RECURSIVE CutSets(_, _)
CutSets(n, k) ==
  LET Grow(fewer) == fewer \cup {C \cup {c} : C \in fewer, c \in 1..n}
  IN  IF k = 0 THEN {{}} ELSE Grow(CutSets(n, k - 1))

(* The ways of cutting text t into consecutive non-empty fragments with at *)
(* most MaxCuts cuts                                                       *)
Fragmentations(t) ==
  LET Nth(C, k) == CHOOSE c \in C : Cardinality({d \in C : d < c}) = k - 1
      From(C, k) == IF k = 1 THEN 0 ELSE Nth(C, k - 1)
      To(C, k) == IF k = Cardinality(C) + 1 THEN Len(t) ELSE Nth(C, k)
  IN  IF t = <<>> THEN {<<>>}
      ELSE {[k \in 1..(Cardinality(C) + 1) |-> Slice(t, From(C, k) + 1, To(C, k))] :
              C \in CutSets(Len(t) - 1, MaxCuts)}

(* play_stream_audio: text_buffer = "", in_code_block = False *)
SegInit(responses) ==
  /\ seg_frags \in UNION {Fragmentations(t) : t \in responses}
  /\ seg_pos = 0
  /\ seg_pc = "loop"
  /\ text_buffer = <<>>
  /\ in_code_block = FALSE
  /\ units = <<>>
  /\ units_in_code = 0
  /\ flushed = 0

(* Mutant of SegChunk: the buffer is kept when a sentence was submitted, so *)
(* the sentence is found again by the next call.                           *)
SegChunk_KeepsBuffer ==
  /\ seg_pc = "loop"
  /\ seg_pos < Len(seg_frags)
  /\ \E buffer \in {text_buffer \o seg_frags[seg_pos + 1]} :
       \E r \in {collect_until_sentence_end(buffer, in_code_block)} :
         /\ in_code_block' = r[3]
         /\ text_buffer' = buffer
         /\ IF r[1] # <<>>
            THEN /\ units' = Append(units, r[1])
                 /\ units_in_code' =
                      IF in_code_block THEN units_in_code + 1 ELSE units_in_code
            ELSE UNCHANGED <<units, units_in_code>>
  /\ seg_pos' = seg_pos + 1
  /\ UNCHANGED <<seg_frags, seg_pc, flushed>>
  /\ UNCHANGED notSeg

(* play_stream_audio: one iteration of "for chunk in stream" *)
SegChunk ==
  /\ seg_pc = "loop"
  /\ seg_pos < Len(seg_frags)
  /\ \E buffer \in {text_buffer \o seg_frags[seg_pos + 1]} :
       \E r \in {collect_until_sentence_end(buffer, in_code_block)} :
         /\ in_code_block' = r[3]
         /\ IF r[1] # <<>>
            THEN /\ units' = Append(units, r[1])
                 /\ text_buffer' = r[2]
                 /\ units_in_code' =
                      IF in_code_block THEN units_in_code + 1 ELSE units_in_code
            ELSE /\ text_buffer' = buffer
                 /\ UNCHANGED <<units, units_in_code>>
  /\ seg_pos' = seg_pos + 1
  /\ UNCHANGED <<seg_frags, seg_pc, flushed>>
  /\ UNCHANGED notSeg

(* Mutant of SubmitRemainder: the remainder is submitted even when empty. *)
SubmitRemainder_Always ==
  /\ units' = Append(units, text_buffer)
  /\ flushed' = flushed + 1

(* play_stream_audio: if text_buffer: executor.submit(process_speech,      *)
(* text_buffer)                                                            *)
SubmitRemainder ==
  IF text_buffer # <<>>
  THEN /\ units' = Append(units, text_buffer)
       /\ flushed' = flushed + 1
  ELSE UNCHANGED <<units, flushed>>

(* play_stream_audio: the stream is exhausted *)
SegStreamEnds ==
  /\ seg_pc = "loop"
  /\ seg_pos = Len(seg_frags)
  /\ SubmitRemainder
  /\ seg_pc' = "done"
  /\ UNCHANGED <<seg_frags, seg_pos, text_buffer, in_code_block, units_in_code>>
  /\ UNCHANGED notSeg

SegNext ==
  \/ SegChunk
  \/ SegStreamEnds

(* "Run ```rm -rf /``` then done." *)
TextRunCode ==
  <<"R","u","n"," ",BT,BT,BT,"r","m"," ","-","r","f"," ","/",BT,
    BT,BT," ","t","h","e","n"," ","d","o","n","e",".">>

(* "then done." *)
TextThenDone ==
  <<"t","h","e","n"," ","d","o","n","e",".">>

(* "Hello there" *)
TextHello ==
  <<"H","e","l","l","o"," ","t","h","e","r","e">>

(* "Hi. Ok." *)
TextHiOk ==
  <<"H","i","."," ","O","k",".">>

(* "It is 66.842 USD now." *)
TextPrice ==
  <<"I","t"," ","i","s"," ","6","6",".","8","4","2"," ","U","S","D",
    " ","n","o","w",".">>

(* "See [it](http://a.b/c) and ``x`` too!" *)
TextLink ==
  <<"S","e","e"," ","[","i","t","]","(","h","t","t","p",":","/","/",
    "a",".","b","/","c",")"," ","a","n","d"," ",BT,BT,"x",BT,BT,
    " ","t","o","o","!">>

(* "```a```,```b. c``` ok." *)
TextTwoSpans ==
  <<BT,BT,BT,"a",BT,BT,BT,",",BT,BT,BT,"b","."," ","c",BT,BT,BT," ","o","k",
    ".">>

(* "Go ```a. b``` Hi. Ok." *)
TextCodeHi ==
  <<"G","o"," ",BT,BT,BT,"a","."," ","b",BT,BT,BT," ","H","i","."," ","O",
    "k",".">>

Responses ==
  {<<>>, TextRunCode, TextHello, TextHiOk, TextPrice, TextLink, TextTwoSpans,
   TextCodeHi}

SegIdle == SegInit({<<>>})

(***************************************************************************)
(* main.py: the voice loop                                                 *)
(***************************************************************************)
(* How record() can end: a recording, the onset timeout, or the exception  *)
(* of the device (the terminal values of rec_pc that SpecRec reaches).     *)
RecordOutcomes == {"success", "timed_out", "raised"}

(* What the text-generation client answers to one ask_chat_gpt: the chunks *)
(* of the first stream, whether its first chunk is a tool call, and the    *)
(* chunks of the stream that interprets the tool's result.                 *)
Answers ==
  {[tool |-> FALSE, first |-> n, second |-> 0] : n \in 0..MaxChunks}
  \cup {[tool |-> TRUE, first |-> n, second |-> k] :
          n \in 1..MaxChunks, k \in 0..MaxChunks}

(* ask_chat_gpt: next(splitter.get()) raises StopIteration when the first  *)
(* stream ends without a chunk; a tool call returns interpreted_stream as  *)
(* the client gives it; otherwise splitter.get() yields the first stream   *)
(* from its first chunk on.                                                *)
ask_chat_gpt(a) ==
  IF a.first = 0 THEN [raised |-> TRUE, chunks |-> 0]
  ELSE IF a.tool THEN [raised |-> FALSE, chunks |-> a.second]
  ELSE [raised |-> FALSE, chunks |-> a.first]

MainInit ==
  /\ main_pc = "sent"
  /\ main_turn = 1
  /\ rec_outcome = "none"
  /\ calls = <<>>
  /\ failure = "none"
  /\ response = 0
  /\ text_thread = "none"
  /\ audio_thread = "none"
  /\ text_seen = 0
  /\ audio_seen = 0

(* audio_service.play_sound("sent") before and after record, and           *)
(* play_sound("standby"); sys.exit() when the result has silence_timeout   *)
(* (SystemExit is not an Exception: the handler does not see it)           *)
MainPlaySound ==
  /\ main_pc \in {"sent", "sent_again", "standby"}
  /\ calls' = Append(calls, "play_sound")
  /\ main_pc' = IF main_pc = "sent" THEN "record"
                ELSE IF main_pc = "standby" THEN "exited"
                ELSE IF rec_outcome = "timed_out" THEN "standby"
                ELSE "transcribe"
  /\ UNCHANGED <<main_turn, rec_outcome, failure, response, text_thread,
                 audio_thread, text_seen, audio_seen>>
  /\ UNCHANGED notMain

(* play_sound raises (no sound file, ffplay fails): except Exception *)
MainPlaySoundFails ==
  /\ main_pc \in {"sent", "sent_again", "standby"}
  /\ calls' = Append(calls, "play_sound")
  /\ failure' = "play_sound"
  /\ main_pc' = "handler"
  /\ UNCHANGED <<main_turn, rec_outcome, response, text_thread, audio_thread,
                 text_seen, audio_seen>>
  /\ UNCHANGED notMain

(* user_input_audio = audio_service.record() *)
MainRecord ==
  /\ main_pc = "record"
  /\ calls' = Append(calls, "record")
  /\ \E outcome \in RecordOutcomes :
       /\ rec_outcome' = outcome
       /\ IF outcome = "raised"
          THEN failure' = "record" /\ main_pc' = "handler"
          ELSE main_pc' = "sent_again" /\ UNCHANGED failure
  /\ UNCHANGED <<main_turn, response, text_thread, audio_thread, text_seen,
                 audio_seen>>
  /\ UNCHANGED notMain

(* user_input_text = audio_service.transcribe_audio(...) *)
MainTranscribe ==
  /\ main_pc = "transcribe"
  /\ calls' = Append(calls, "transcribe_audio")
  /\ main_pc' = "ask"
  /\ UNCHANGED <<main_turn, rec_outcome, failure, response, text_thread,
                 audio_thread, text_seen, audio_seen>>
  /\ UNCHANGED notMain

(* Mutant of MainTranscribeFails: the failed call is made again. *)
MainTranscribeFails_Retry ==
  /\ main_pc = "transcribe"
  /\ Len(calls) < 6
  /\ calls' = Append(calls, "transcribe_audio")
  /\ failure' = "transcribe_audio"
  /\ main_pc' = "transcribe"
  /\ UNCHANGED <<main_turn, rec_outcome, response, text_thread, audio_thread,
                 text_seen, audio_seen>>
  /\ UNCHANGED notMain

(* transcribe_audio raises AudioTranscriptionFailed (after logging the     *)
(* error): except Exception                                                *)
MainTranscribeFails ==
  /\ main_pc = "transcribe"
  /\ calls' = Append(calls, "transcribe_audio")
  /\ failure' = "transcribe_audio"
  /\ main_pc' = "handler"
  /\ UNCHANGED <<main_turn, rec_outcome, response, text_thread, audio_thread,
                 text_seen, audio_seen>>
  /\ UNCHANGED notMain

(* stream = chat_service.ask_chat_gpt(user_input_text, ..., mode="voice") *)
MainAsk ==
  /\ main_pc = "ask"
  /\ calls' = Append(calls, "ask_chat_gpt voice")
  /\ \E a \in Answers :
       \E r \in {ask_chat_gpt(a)} :
         IF r.raised
         THEN failure' = "ask_chat_gpt" /\ main_pc' = "handler" /\ UNCHANGED response
         ELSE response' = r.chunks /\ main_pc' = "spawn" /\ UNCHANGED failure
  /\ UNCHANGED <<main_turn, rec_outcome, text_thread, audio_thread, text_seen,
                 audio_seen>>
  /\ UNCHANGED notMain

(* splitter = StreamSplitter(stream); splitter.start(); both threads are   *)
(* created, each on its own splitter.get(), and started                    *)
MainSpawn ==
  /\ main_pc = "spawn"
  /\ calls' = calls \o <<"print_stream_text", "play_stream_audio">>
  /\ text_thread' = "running"
  /\ audio_thread' = "running"
  /\ main_pc' = "join_text"
  /\ UNCHANGED <<main_turn, rec_outcome, failure, response, text_seen, audio_seen>>
  /\ UNCHANGED notMain

(* print_stream_text: for chunk in stream, until the generator ends *)
TextStep ==
  /\ text_thread = "running"
  /\ IF text_seen < response
     THEN text_seen' = text_seen + 1 /\ UNCHANGED text_thread
     ELSE text_thread' = "done" /\ UNCHANGED text_seen
  /\ UNCHANGED <<main_pc, main_turn, rec_outcome, calls, failure, response,
                 audio_thread, audio_seen>>
  /\ UNCHANGED notMain

(* play_stream_audio: for chunk in stream, until the generator ends and    *)
(* the playback thread is joined                                           *)
AudioStep ==
  /\ audio_thread = "running"
  /\ IF audio_seen < response
     THEN audio_seen' = audio_seen + 1 /\ UNCHANGED audio_thread
     ELSE audio_thread' = "done" /\ UNCHANGED audio_seen
  /\ UNCHANGED <<main_pc, main_turn, rec_outcome, calls, failure, response,
                 text_thread, text_seen>>
  /\ UNCHANGED notMain

(* text_output_thread.join() *)
MainJoinText ==
  /\ main_pc = "join_text"
  /\ text_thread = "done"
  /\ main_pc' = "join_audio"
  /\ UNCHANGED <<main_turn, rec_outcome, calls, failure, response, text_thread,
                 audio_thread, text_seen, audio_seen>>
  /\ UNCHANGED notMain

(* Mutant of MainJoinAudio: the turn ends without waiting for the thread. *)
MainJoinAudio_NoWait ==
  /\ main_pc = "join_audio"
  /\ main_pc' = "turn_over"
  /\ UNCHANGED <<main_turn, rec_outcome, calls, failure, response, text_thread,
                 audio_thread, text_seen, audio_seen>>
  /\ UNCHANGED notMain

(* audio_output_thread.join() *)
MainJoinAudio ==
  /\ main_pc = "join_audio"
  /\ audio_thread = "done"
  /\ main_pc' = "turn_over"
  /\ UNCHANGED <<main_turn, rec_outcome, calls, failure, response, text_thread,
                 audio_thread, text_seen, audio_seen>>
  /\ UNCHANGED notMain

(* except Exception: logger.error; the error is appended to the history;   *)
(* error_stream = chat_service.ask_chat_gpt("Error Interpretation          *)
(* Request", ..., mode="text").  An exception raised here leaves the loop. *)
MainHandlerAsk ==
  /\ main_pc = "handler"
  /\ calls' = Append(calls, "ask_chat_gpt text")
  /\ \E a \in Answers :
       \E r \in {ask_chat_gpt(a)} :
         /\ main_pc' = IF r.raised THEN "crashed" ELSE "handler_print"
         /\ response' = r.chunks
  /\ UNCHANGED <<main_turn, rec_outcome, failure, text_thread, audio_thread,
                 text_seen, audio_seen>>
  /\ UNCHANGED notMain

(* except Exception: chat_service.print_stream_text(error_stream) *)
MainHandlerPrint ==
  /\ main_pc = "handler_print"
  /\ calls' = Append(calls, "print_stream_text")
  /\ main_pc' = "turn_over"
  /\ UNCHANGED <<main_turn, rec_outcome, failure, response, text_thread,
                 audio_thread, text_seen, audio_seen>>
  /\ UNCHANGED notMain

(* while True: the next iteration *)
MainLoop ==
  /\ main_pc = "turn_over"
  /\ main_turn < MaxTurns
  /\ main_turn' = main_turn + 1
  /\ main_pc' = "sent"
  /\ rec_outcome' = "none"
  /\ calls' = <<>>
  /\ failure' = "none"
  /\ response' = 0
  /\ text_thread' = "none"
  /\ audio_thread' = "none"
  /\ text_seen' = 0
  /\ audio_seen' = 0
  /\ UNCHANGED notMain

MainNext ==
  \/ MainPlaySound
  \/ MainPlaySoundFails
  \/ MainRecord
  \/ MainTranscribe
  \/ MainTranscribeFails
  \/ MainAsk
  \/ MainSpawn
  \/ TextStep
  \/ AudioStep
  \/ MainJoinText
  \/ MainJoinAudio
  \/ MainHandlerAsk
  \/ MainHandlerPrint
  \/ MainLoop

(***************************************************************************)
(* ChatService.handle_function_call and GtafRuntimeClient.enforce          *)
(***************************************************************************)
(* Strings are sequences of one-character strings, as in the segmenter.    *)
(* The reason codes GtafRuntimeClient passes to _deny.                     *)
ClientReasonCodes ==
  [INVALID_ACTION |->
      <<"I","N","V","A","L","I","D","_","A","C","T","I","O","N">>,
   RUNTIME_UNAVAILABLE |->
      <<"R","U","N","T","I","M","E","_","U","N","A","V","A","I","L","A","B",
        "L","E">>,
   GTAF_ARTIFACT_LOAD_FAILED |->
      <<"G","T","A","F","_","A","R","T","I","F","A","C","T","_","L","O","A",
        "D","_","F","A","I","L","E","D">>,
   GTAF_RUNTIME_ERROR |->
      <<"G","T","A","F","_","R","U","N","T","I","M","E","_","E","R","R","O",
        "R">>]

(* EnforcementResult, by its outcome and reason_code *)
EnforcementResult(result_outcome, reason_code) ==
  [outcome |-> result_outcome, reason_code |-> reason_code]

NoDecision == EnforcementResult("none", <<>>)

(* What gtaf_runtime.enforce does with loaded artifacts: it returns        *)
(* EXECUTE, returns DENY with a reason code of its own, or raises.         *)
RuntimeVerdicts ==
  {[raises |-> FALSE, result |-> EnforcementResult("EXECUTE", <<"O","K">>)],
   [raises |-> FALSE, result |-> EnforcementResult("DENY",
      <<"D","R","C","_","N","O","T","_","P","E","R","M","I","T","T","E","D">>)],
   [raises |-> TRUE, result |-> NoDecision]}

(* The action identifiers: a string or, from a caller of enforce that      *)
(* passes something else, not a string.                                    *)
ActionIds ==
  {[is_str |-> TRUE, text |->
      <<"e","x","e","c","u","t","e","_","c","o","m","m","a","n","d",".","d",
        "a","t","e">>],
   [is_str |-> TRUE, text |->
      <<"u","n","k","n","o","w","n">>]}

InvalidActions ==
  {[is_str |-> TRUE, text |-> <<>>], [is_str |-> FALSE, text |-> <<>>]}

(* The client that ChatService holds: gtaf_runtime_client is None, or a    *)
(* GtafRuntimeClient with the gtaf_runtime import (enforce is None when it *)
(* failed), the outcome of ArtifactLoader.load, and the runtime's verdict. *)
GtafClients ==
  {[present |-> FALSE, runtime |-> TRUE, load |-> "loaded",
    verdict |-> CHOOSE v \in RuntimeVerdicts : v.raises]}
  \cup [present : {TRUE}, runtime : BOOLEAN,
        load : {"loaded", "FileNotFoundError", "ValueError"},
        verdict : RuntimeVerdicts]

(* Mutant of _deny: the decision is EXECUTE. *)
_deny_Executes(reason_code) == EnforcementResult("EXECUTE", reason_code)

(* GtafRuntimeClient._deny *)
_deny(reason_code) == EnforcementResult("DENY", reason_code)

(* GtafRuntimeClient.enforce *)
enforce(a, client) ==
  IF ~a.is_str \/ a.text = <<>>
  THEN _deny(ClientReasonCodes.INVALID_ACTION)
  ELSE IF ~client.runtime
  THEN _deny(ClientReasonCodes.RUNTIME_UNAVAILABLE)
  ELSE IF client.load # "loaded"
  THEN _deny(ClientReasonCodes.GTAF_ARTIFACT_LOAD_FAILED)
  ELSE IF client.verdict.raises
  THEN _deny(ClientReasonCodes.GTAF_RUNTIME_ERROR)
  ELSE client.verdict.result

(* self.executors, by the function name of their definition *)
Executors == <<"execute_command", "weather_operations">>

FunctionNames == {"execute_command", "weather_operations", "custom_tool"}

(* the arguments of the tool call, by their command *)
ArgumentSets == {"date", "rm -f test.txt"}

(* what an executor's exec returns *)
ExecResults == {<<"o","k">>, <<>>}

(* in place of a result, for a call of exec that raised *)
Raised == <<"Exception">>

(* a call executor.exec(arguments) of the executor found, and its result *)
ExecCall(result) ==
  [executor |-> function_name, arguments |-> arguments, result |-> result]

(* reason_code = None *)
NoReason == <<"None">>

FunctionCallOutcome(result, executor, denied, reason_code) ==
  [result |-> result, executor |-> executor, denied |-> denied,
   reason_code |-> reason_code]

NoOutcome == FunctionCallOutcome(<<>>, "none", FALSE, NoReason)

(* handle_function_call: f"GTAF_DENY:{decision.reason_code}. " "Error: ..." *)
denial_message(reason_code) ==
  <<"G","T","A","F","_","D","E","N","Y",":">>
  \o reason_code \o
  <<"."," ","E","r","r","o","r",":"," ","A","c","t","i","o","n"," ","d","e",
    "n","i","e","d"," ","b","y"," ","g","o","v","e","r","n","a","n","c","e",
    " ","p","o","l","i","c","y"," ","a","n","d"," ","w","a","s"," ","n","o",
    "t"," ","e","x","e","c","u","t","e","d",".">>

ToolInit(entries, clients) ==
  /\ tool_pc \in entries
  /\ function_name \in FunctionNames
  /\ arguments \in ArgumentSets
  /\ gtaf \in clients
  /\ action \in IF tool_pc = "enforce" THEN ActionIds \cup InvalidActions
                ELSE ActionIds
  /\ tool_pc = "enforce" => gtaf.present
  /\ decision = NoDecision
  /\ exec_calls = <<>>
  /\ call_outcome = NoOutcome

(* handle_function_call: executor = self._find_executor(function_name),    *)
(* which raises FunctionNotFound when no executor has that name            *)
_find_executor ==
  /\ tool_pc = "handle_function_call"
  /\ tool_pc' =
       IF \E k \in 1..Len(Executors) : Executors[k] = function_name
       THEN IF gtaf.present THEN "gtaf" ELSE "exec"
       ELSE "raised"
  /\ UNCHANGED <<function_name, arguments, gtaf, action, decision, exec_calls,
                 call_outcome>>
  /\ UNCHANGED notTool

(* handle_function_call: decision = self.gtaf_runtime_client.enforce(      *)
(* action=action, context=context), action being build_action_id(...)      *)
HfcEnforce ==
  /\ tool_pc = "gtaf"
  /\ decision' = enforce(action, gtaf)
  /\ tool_pc' = "decided"
  /\ UNCHANGED <<function_name, arguments, gtaf, action, exec_calls,
                 call_outcome>>
  /\ UNCHANGED notTool

(* Mutant of HfcDeny: the executor runs before the denial is returned. *)
HfcDeny_RunsExecutor ==
  /\ tool_pc = "decided"
  /\ decision.outcome = "DENY"
  /\ exec_calls' = Append(exec_calls, ExecCall(Raised))
  /\ call_outcome' = FunctionCallOutcome(denial_message(decision.reason_code),
                                    function_name, TRUE, decision.reason_code)
  /\ tool_pc' = "returned"
  /\ UNCHANGED <<function_name, arguments, gtaf, action, decision>>
  /\ UNCHANGED notTool

(* handle_function_call: if decision.outcome == "DENY": return the denial *)
HfcDeny ==
  /\ tool_pc = "decided"
  /\ decision.outcome = "DENY"
  /\ call_outcome' = FunctionCallOutcome(denial_message(decision.reason_code),
                                    function_name, TRUE, decision.reason_code)
  /\ tool_pc' = "returned"
  /\ UNCHANGED <<function_name, arguments, gtaf, action, decision, exec_calls>>
  /\ UNCHANGED notTool

(* Mutant of HfcExec: the result is returned without calling exec. *)
HfcExec_NoCall ==
  /\ \/ tool_pc = "exec"
     \/ tool_pc = "decided" /\ decision.outcome # "DENY"
  /\ \E result \in ExecResults :
       call_outcome' = FunctionCallOutcome(result, function_name, FALSE, NoReason)
  /\ tool_pc' = "returned"
  /\ UNCHANGED <<function_name, arguments, gtaf, action, decision, exec_calls>>
  /\ UNCHANGED notTool

(* handle_function_call: return FunctionCallOutcome(                       *)
(* result=executor.exec(arguments), executor=executor, denied=False),      *)
(* reached without a client and with a decision that is not DENY           *)
HfcExec ==
  /\ \/ tool_pc = "exec"
     \/ tool_pc = "decided" /\ decision.outcome # "DENY"
  /\ \E result \in ExecResults :
       /\ exec_calls' = Append(exec_calls, ExecCall(result))
       /\ call_outcome' =
            FunctionCallOutcome(result, function_name, FALSE, NoReason)
  /\ tool_pc' = "returned"
  /\ UNCHANGED <<function_name, arguments, gtaf, action, decision>>
  /\ UNCHANGED notTool

(* handle_function_call: executor.exec(arguments) raises *)
HfcExecRaises ==
  /\ \/ tool_pc = "exec"
     \/ tool_pc = "decided" /\ decision.outcome # "DENY"
  /\ exec_calls' = Append(exec_calls, ExecCall(Raised))
  /\ tool_pc' = "raised"
  /\ UNCHANGED <<function_name, arguments, gtaf, action, decision,
                 call_outcome>>
  /\ UNCHANGED notTool

(* a call of GtafRuntimeClient.enforce by another caller than              *)
(* handle_function_call                                                    *)
EnforceCall ==
  /\ tool_pc = "enforce"
  /\ decision' = enforce(action, gtaf)
  /\ tool_pc' = "enforced"
  /\ UNCHANGED <<function_name, arguments, gtaf, action, exec_calls,
                 call_outcome>>
  /\ UNCHANGED notTool

ToolNext ==
  \/ _find_executor
  \/ HfcEnforce
  \/ HfcDeny
  \/ HfcExec
  \/ HfcExecRaises
  \/ EnforceCall

ToolIdle ==
  ToolInit({"handle_function_call"},
           {CHOOSE c \in GtafClients : ~c.present})
  /\ function_name = "execute_command" /\ arguments = "date"
  /\ action = CHOOSE a \in ActionIds : TRUE

(***************************************************************************)
(* Specifications                                                          *)
(***************************************************************************)
InitPlay ==
  PlayInit /\ TeeIdle /\ RecIdle /\ TalkInit /\ SegIdle
  /\ MainInit /\ ToolIdle

SpecPlay == InitPlay /\ [][PlayNext]_vars

(* Some thread that can take a step is scheduled: the caller, a worker of   *)
(* the executor or the playback thread; every TTS call returns or fails.   *)
(* No thread of the pipeline polls, so this is all that termination needs. *)
SpecPlayFair == SpecPlay /\ WF_vars(PlayNext)

InitTee ==
  /\ PlayInit /\ TeeInit(SeqsUpTo(Fragments, MaxK), BOOLEAN)
  /\ RecIdle /\ TalkInit /\ SegIdle /\ MainInit /\ ToolIdle

SpecTee == InitTee /\ [][TeeNext]_vars

(* The reader thread and every thread that iterates a get() generator keep *)
(* being scheduled.                                                        *)
SpecTeeFair ==
  /\ SpecTee
  /\ WF_vars(SplitterStart \/ ReadChunk \/ ReadFinished \/ ReadRaises)
  /\ \A c \in Consumers :
       WF_vars(GetTestFinished(c) \/ GetTestLen(c) \/ GetYield(c) \/ GetSpin(c))

InitRec ==
  PlayInit /\ TeeIdle /\ RecInit(Mics) /\ TalkInit /\ SegIdle
  /\ MainInit /\ ToolIdle

SpecRec == InitRec /\ [][RecNext]_vars

InitTalk ==
  PlayInit /\ TeeIdle /\ RecIdle /\ TalkInit /\ SegIdle
  /\ MainInit /\ ToolIdle

SpecTalk == InitTalk /\ [][TalkNext]_vars

(* A voice turn of the main loop, as far as the audio devices go: record,  *)
(* and play_stream_audio once record has returned a recording.             *)
DevMics ==
  {[lead |-> 0, burst |-> 0, gap |-> 0, again |-> 0],
   [lead |-> 0, burst |-> 1, gap |-> 0, again |-> 0]}

InitDev ==
  PlayInit /\ TeeIdle /\ RecInit(DevMics) /\ TalkInit /\ SegIdle
  /\ MainInit /\ ToolIdle

DevNext ==
  \/ RecNext
  \/ rec_pc = "success" /\ PlayNext

SpecDev == InitDev /\ [][DevNext]_vars

InitSeg ==
  PlayInit /\ TeeIdle /\ RecIdle /\ TalkInit /\ SegInit(Responses)
  /\ MainInit /\ ToolIdle

SpecSeg == InitSeg /\ [][SegNext]_vars

InitMain ==
  PlayInit /\ TeeIdle /\ RecIdle /\ TalkInit /\ SegIdle /\ MainInit
  /\ ToolIdle

SpecMain == InitMain /\ [][MainNext]_vars

(* A tool call reaching handle_function_call, whatever client it holds,    *)
(* and calls of enforce made directly.                                     *)
InitTool ==
  /\ PlayInit /\ TeeIdle /\ RecIdle /\ TalkInit /\ SegIdle /\ MainInit
  /\ ToolInit({"handle_function_call", "enforce"}, GtafClients)

SpecTool == InitTool /\ [][ToolNext]_vars

(***************************************************************************)
(* Claims about the synthesis / playback pipeline (SpecPlay)               *)
(***************************************************************************)
WrittenThisTurn(i) == \E k \in 1..Len(written) : written[k] = AudioItem(turn, i)

(* C1: for any number of submitted sentences and any interleaving of the   *)
(* process_speech tasks, play_audio writes the segments of the turn in     *)
(* strictly increasing sentence order and writes none twice.               *)
C1_PlaybackInSubmissionOrder ==
  \A j, k \in 1..Len(written) :
    (j < k /\ written[j].turn = turn /\ written[k].turn = turn)
      => written[j].seq < written[k].seq

(* C3: when the TTS call of one sentence fails, the turn continues and the *)
(* audio of every sentence of the turn that was synthesized successfully   *)
(* has been written to the output device when the turn ends (the output    *)
(* device and the response stream themselves not failing).                 *)
C3_FailureSkipsOnlyItsSentence ==
  (/\ psa_pc = "returned"
   /\ pa_end # DeviceError
   /\ ~stream_raised
   /\ \E i \in Sentences : task[i] = "failed")
    => \A i \in Sentences : task[i] = "done" => WrittenThisTurn(i)

(* C4: play_audio leaves its loop only on the end marker that stop_audio   *)
(* sends after the final sentence: when it has stopped (the device not     *)
(* failing) no segment of the turn waits in the queue and no synthesis     *)
(* task of the turn is still to enqueue one.                               *)
C4_PlaybackEndsOnlyAtFinalMarker ==
  (pa_pc = "done" /\ pa_end # DeviceError)
    => /\ \A i \in Sentences : task[i] \notin {"queued", "tts"}
       /\ \A k \in 1..Len(audio_queue) :
            ~(audio_queue[k].kind = "audio" /\ audio_queue[k].turn = turn)

(* C5: when play_stream_audio returns the audio queue is empty, in every   *)
(* turn, also after synthesis failures (stated here for the turns in which *)
(* the output device works).                                               *)
C5_QueueEmptyAtEndOfTurn ==
  (psa_pc = "returned" /\ pa_end # DeviceError) => audio_queue = <<>>

(***************************************************************************)
(* Claims about StreamSplitter (SpecTee)                                   *)
(***************************************************************************)
IsPrefix(p, q) == Len(p) <= Len(q) /\ \A k \in 1..Len(p) : p[k] = q[k]

(* C2: every consumer of get() yields the fragments of the source in       *)
(* production order, none lost, duplicated or reordered: what it has       *)
(* yielded is always a prefix of the source, and the whole source once it  *)
(* has terminated, so any two consumers observe the same sequence.         *)
C2_TeeConsumersSeeTheSource ==
  \A c \in Consumers :
    /\ IsPrefix(get_out[c], tee_source)
    /\ get_pc[c] = "done" => get_out[c] = tee_source

(* C2 witness: one consumer has run to its end over a source of several    *)
(* fragments while the other has not yielded anything yet.                 *)
C2_Witness ==
  /\ Len(tee_source) >= 2
  /\ get_pc[1] = "done"
  /\ get_out[1] = tee_source
  /\ get_out[2] = <<>>

(***************************************************************************)
(* Claims about record (SpecRec)                                           *)
(***************************************************************************)
NeverSpeech(m) == m.burst = 0 /\ m.again = 0

(* Number of the last speech frame among the first n frames, 0 if none. *)
LastSpeech(m, n) ==
  LET S == {k \in 1..n : IsSpeechAt(m, k)}
  IN  IF S = {} THEN 0 ELSE CHOOSE k \in S : \A j \in S : j <= k

(* C6: with a source that is never speech, record returns the timed-out    *)
(* result (success false, silence_timeout true) at the first frame at      *)
(* which the elapsed time exceeds the onset window, within one frame       *)
(* duration of the window, and reads no frame after it.                    *)
C6_OnsetTimeout ==
  NeverSpeech(mic) =>
    /\ rec_pc = "loop" => rec_elapsed <= OnsetWindowMs
    /\ rec_pc # "success"
    /\ rec_pc = "timed_out" =>
         /\ rec_result = AudioRecordResult(FALSE, <<>>, FALSE, TRUE)
         /\ rec_elapsed > OnsetWindowMs
         /\ (Len(audio_frames) - 1) * FrameMs <= OnsetWindowMs
         /\ Len(audio_frames) * FrameMs + MaxLagMs > OnsetWindowMs

(* C6 witness: a never-speech source has timed out. *)
C6_Witness ==
  /\ NeverSpeech(mic)
  /\ rec_pc = "timed_out"
  /\ rec_result.silence_timeout

(* C7: once speech has been seen, record returns Success exactly at the    *)
(* frame at which the run of non-speech frames since the last speech frame *)
(* first exceeds max_silence_duration: not before, with every speech frame *)
(* restarting the run, and with no frame beyond that one read or included. *)
C7_StopOnTrailingSilence ==
  LET n == Len(audio_frames)
      run == n - LastSpeech(mic, n)
  IN  /\ (rec_pc = "loop" /\ recording_started) => run * FrameMs <= MaxSilenceMs
      /\ rec_pc = "success" =>
           /\ recording_started
           /\ run * FrameMs > MaxSilenceMs
           /\ (run - 1) * FrameMs <= MaxSilenceMs
           /\ rec_result.success /\ ~rec_result.silence_timeout
           /\ rec_result.data = audio_frames
           /\ \A k \in 1..n : audio_frames[k] = k

(* C7 witness: Success after speech, a pause shorter than the threshold,   *)
(* and speech again.                                                       *)
C7_Witness ==
  /\ rec_pc = "success"
  /\ mic.again > 0
  /\ mic.gap > 0
  /\ mic.gap * FrameMs <= MaxSilenceMs

RECURSIVE Joined(_)
Joined(frags) ==
  IF frags = <<>> THEN <<>> ELSE Head(frags) \o Joined(Tail(frags))

(* C9: for the response "Run ```rm -rf /``` then done.", however it is     *)
(* cut into fragments, no unit is submitted while the segmenter is inside  *)
(* the code span, no submitted unit carries a fence marker (the span is    *)
(* spoken only as the fixed placeholder), and exactly one unit,            *)
(* "then done.", is submitted, after the span has closed.                  *)
C9_CodeSpanOnlyAsPlaceholder ==
  (seg_pc = "done" /\ Joined(seg_frags) = TextRunCode) =>
    /\ units_in_code = 0
    /\ \A k \in 1..Len(units) : \A j \in 1..Len(units[k]) : units[k][j] # BT
    /\ Cardinality({k \in 1..Len(units) : units[k] = TextThenDone}) = 1
    /\ units # <<>> /\ units[Len(units)] = TextThenDone

(* C10: when the stream is exhausted, a non-empty text_buffer is submitted *)
(* exactly once, as the last unit, and an empty one is not submitted; the  *)
(* response "Hello there", however it is cut into fragments, yields the    *)
(* single unit "Hello there".                                              *)
C10_RemainderFlushedOnce ==
  seg_pc = "done" =>
    /\ flushed = IF text_buffer # <<>> THEN 1 ELSE 0
    /\ text_buffer # <<>> => (units # <<>> /\ units[Len(units)] = text_buffer)
    /\ Joined(seg_frags) = TextHello => units = <<TextHello>>

(* "Hello there" arrived in three fragments and was flushed at the end *)
C10_Witness ==
  /\ seg_pc = "done"
  /\ Len(seg_frags) = 3
  /\ Joined(seg_frags) = TextHello
  /\ flushed = 1
  /\ units = <<TextHello>>


(* "It is 66." *)
TextPriceCut ==
  <<"I","t"," ","i","s"," ","6","6",".">>

(* C11: for the response "It is 66.842 USD now.", however it is cut into   *)
(* fragments, no submitted unit ends at the decimal point inside the       *)
(* number: the price stays within one unit, the whole sentence.            *)
C11_PriceNeverSplit ==
  (seg_pc = "done" /\ Joined(seg_frags) = TextPrice) =>
    /\ \A k \in 1..Len(units) : units[k] # TextPriceCut
    /\ units = <<TextPrice>>


(***************************************************************************)
(* Claims about the audio devices (SpecDev, SpecPlay, SpecRec)             *)
(***************************************************************************)
RecordEnded == rec_pc \in {"timed_out", "success", "raised", "recording_failed"}

(* C12: the input stream opened by record is closed once record has ended  *)
(* (result returned, onset timeout, exception from the device), and the    *)
(* output stream opened by play_audio is closed once play_audio has ended  *)
(* (end signal, exception from the device), hence when play_stream_audio   *)
(* returns.                                                                *)
C12_DeviceStreamsClosed ==
  /\ RecordEnded => in_stream = "closed"
  /\ pa_pc \in {"idle", "done"} => out_stream = "closed"
  /\ psa_pc = "returned" => out_stream = "closed"

(* record returned a recording that began on an open stream, and the       *)
(* playback that followed wrote audio and then ended on a device error     *)
C12_Witness ==
  /\ rec_pc = "success"
  /\ in_stream = "closed"
  /\ pa_pc = "done"
  /\ pa_end = DeviceError
  /\ written # <<>>
  /\ out_stream = "closed"

(* C13: a playback thread lives only inside the call of play_stream_audio  *)
(* that started it: it has ended when play_stream_audio returns, so none   *)
(* lives when the next turn starts its own; and audio is written to the    *)
(* output device only by the live playback thread, on its open stream.     *)
C13_SinglePlaybackConsumer ==
  /\ psa_pc = "returned" => pa_pc = "done"
  /\ psa_pc = "start" => pa_pc = "idle"
  /\ out_stream = "open" => pa_pc = "get"

(* the playback thread of the second turn is writing audio *)
C13_Witness ==
  /\ turn = 2
  /\ pa_pc = "get"
  /\ out_stream = "open"
  /\ written # <<>>

(* C21: every AudioRecordResult that record returns has exactly one of    *)
(* success and silence_timeout true, and carries data (the frames read) if *)
(* and only if success is true.                                            *)
C21_ResultIsSuccessXorTimeout ==
  rec_pc \in {"timed_out", "success"} =>
    /\ rec_result.success # rec_result.silence_timeout
    /\ rec_result.has_data = rec_result.success
    /\ rec_result.success = (rec_pc = "success")
    /\ rec_result.has_data => rec_result.data # <<>>
    /\ ~rec_result.has_data => rec_result.data = <<>>

(* record returned the timed-out result for a source whose speech began    *)
(* only after the onset window                                             *)
C21_Witness ==
  /\ rec_pc = "timed_out"
  /\ mic.burst > 0
  /\ ~rec_result.success /\ rec_result.silence_timeout
  /\ ~rec_result.has_data

(* C20: when record ends without having read any frame (device fault), it  *)
(* ends by raising AudioRecordingFailed.                                   *)
C20_NoFrameIsRecordingFailed ==
  (RecordEnded /\ audio_frames = <<>>) => rec_pc = "recording_failed"


(***************************************************************************)
(* Further claims about StreamSplitter (SpecTee)                           *)
(***************************************************************************)
(* C18: the source is advanced only by a step of the reader thread, by one *)
(* chunk, which is appended to the buffer; no step of a get() consumer     *)
(* advances it, so the buffer is always the chunks pulled so far, each     *)
(* once.                                                                   *)
C18_OnlyReaderPullsSource ==
  [][/\ tee_pulled' # tee_pulled =>
          /\ reader_pc = "loop"
          /\ tee_pulled' = tee_pulled + 1
          /\ chunks' = Append(chunks, tee_source[tee_pulled + 1])
          /\ get_pc' = get_pc /\ get_index' = get_index
     /\ chunks' = SubSeq(tee_source, 1, tee_pulled')]_vars

(* one consumer has yielded the whole source while the other, slower one   *)
(* has not yet taken a chunk                                               *)
C18_Witness ==
  /\ Len(tee_source) = MaxK
  /\ tee_pulled = MaxK
  /\ get_index[1] = MaxK
  /\ get_index[2] = 0
  /\ get_pc[1] = "done"


(***************************************************************************)
(* Claims about the voice loop (SpecMain)                                  *)
(***************************************************************************)
Called(c) == \E k \in 1..Len(calls) : calls[k] = c

(* C14: in a turn whose record() returned the timed-out result, neither    *)
(* transcription nor the text-generation client is called, and no          *)
(* play_stream_audio is started.                                           *)
C14_TimeoutEndsTurnSilently ==
  rec_outcome = "timed_out" =>
    /\ ~Called("transcribe_audio")
    /\ ~Called("ask_chat_gpt voice")
    /\ ~Called("ask_chat_gpt text")
    /\ ~Called("play_stream_audio")
    /\ audio_thread = "none"

(* C15: in a turn whose record() failed with a device error, the           *)
(* text-generation client is not called, in either mode.                   *)
C15_DeviceErrorWithoutExchange ==
  rec_outcome = "raised" =>
    /\ ~Called("ask_chat_gpt voice")
    /\ ~Called("ask_chat_gpt text")

(* C16: in a turn whose transcription failed, the failure has entered the  *)
(* error handler, transcribe_audio was called once only, the voice         *)
(* exchange was not made and neither consumer thread (printing,            *)
(* play_stream_audio with its segmenter, synthesis and playback) was       *)
(* started.                                                                *)
C16_TranscriptionFailureAbortsTurn ==
  failure = "transcribe_audio" =>
    /\ main_pc \in {"handler", "handler_print", "turn_over", "crashed"}
    /\ Cardinality({k \in 1..Len(calls) : calls[k] = "transcribe_audio"}) = 1
    /\ ~Called("ask_chat_gpt voice")
    /\ ~Called("play_stream_audio")
    /\ text_thread = "none" /\ audio_thread = "none"

(* a turn whose transcription failed is over, the handler having printed   *)
(* its interpretation                                                      *)
C16_Witness ==
  /\ failure = "transcribe_audio"
  /\ main_pc = "turn_over"
  /\ Called("ask_chat_gpt text")

(* C17: the two consumer threads run only while the main thread is at its  *)
(* joins, and when a voice turn is over without failure both have ended,   *)
(* each having taken every chunk of the response from its own get().       *)
C17_TurnWaitsForBothConsumers ==
  /\ (text_thread = "running" \/ audio_thread = "running") =>
        main_pc \in {"join_text", "join_audio"}
  /\ (main_pc = "turn_over" /\ failure = "none") =>
        /\ text_thread = "done" /\ audio_thread = "done"
        /\ text_seen = response /\ audio_seen = response

(* both consumers are running, the printing one ahead of the audio one *)
C17_Witness ==
  /\ text_thread = "running"
  /\ audio_thread = "running"
  /\ audio_seen > 0
  /\ text_seen > audio_seen

(* C19: a voice turn goes on to its consumers only with a response that    *)
(* has at least one chunk: a stream that ends without a chunk makes        *)
(* ask_chat_gpt raise, which enters the error handler.                     *)
C19_EmptyStreamFailsTurn ==
  (main_pc \in {"spawn", "join_text", "join_audio", "turn_over"} /\ failure = "none")
    => response > 0


(***************************************************************************)
(* Claims about tool calls and governance (SpecTool)                       *)
(***************************************************************************)
(* "GTAF_DENY:" *)
TextGtafDeny ==
  <<"G","T","A","F","_","D","E","N","Y",":">>

(* C22: when the governance client has returned DENY to                    *)
(* handle_function_call, no executor's exec is called, and what            *)
(* handle_function_call returns has denied = true, the reason code of the  *)
(* decision, and a result containing "GTAF_DENY:" followed by that reason  *)
(* code.                                                                   *)
C22_DenyBlocksExecutor ==
  (tool_pc \in {"decided", "returned", "raised"} /\ decision.outcome = "DENY")
    => /\ exec_calls = <<>>
       /\ tool_pc # "raised"
       /\ tool_pc = "returned" =>
            /\ call_outcome.denied
            /\ call_outcome.reason_code = decision.reason_code
            /\ Find(call_outcome.result,
                    TextGtafDeny \o decision.reason_code, 1) > 0

(* a tool call that the runtime denied with a reason code of its own has   *)
(* returned                                                                *)
C22_Witness ==
  /\ tool_pc = "returned"
  /\ gtaf.present /\ gtaf.runtime /\ gtaf.load = "loaded"
  /\ ~gtaf.verdict.raises
  /\ decision = gtaf.verdict.result
  /\ decision.outcome = "DENY"
  /\ call_outcome.denied
  /\ exec_calls = <<>>

(* C23: when the governance client has returned EXECUTE to                 *)
(* handle_function_call, exec is called once, on the executor whose        *)
(* function name is that of the call, with the arguments of the call, not  *)
(* before the decision, and what handle_function_call returns is the       *)
(* result of that call with denied = false.                                *)
C23_ExecuteRunsExecutorOnce ==
  decision.outcome = "EXECUTE" =>
    /\ tool_pc \in {"decided", "enforced"} => exec_calls = <<>>
    /\ tool_pc \in {"returned", "raised"} =>
         /\ Len(exec_calls) = 1
         /\ exec_calls[1].executor = function_name
         /\ exec_calls[1].arguments = arguments
         /\ \E k \in 1..Len(Executors) : Executors[k] = function_name
    /\ tool_pc = "returned" =>
         /\ ~call_outcome.denied
         /\ call_outcome.result = exec_calls[1].result
         /\ call_outcome.executor = function_name
         /\ call_outcome.reason_code = NoReason
    /\ tool_pc = "raised" => exec_calls[1].result = Raised

(* a tool call that the runtime let through has run the second executor of *)
(* the list and returned its result                                        *)
C23_Witness ==
  /\ tool_pc = "returned"
  /\ decision.outcome = "EXECUTE"
  /\ function_name = Executors[2]
  /\ Len(exec_calls) = 1
  /\ call_outcome.result = exec_calls[1].result
  /\ call_outcome.result # <<>>

(* "SDK_" *)
TextSdk == <<"S","D","K","_">>

(* C24: when ArtifactLoader.load fails (a file is missing, or its content  *)
(* is not valid), enforce returns a DENY decision whose reason code starts *)
(* with "SDK_".                                                            *)
C24_LoadFailureDeniesWithSdkCode ==
  (tool_pc \in {"decided", "enforced"} /\ gtaf.load # "loaded") =>
    /\ decision.outcome = "DENY"
    /\ Take(decision.reason_code, Len(TextSdk)) = TextSdk


(***************************************************************************)
(* Further claims about the cancellation of openai-talk.py (SpecTalk)      *)
(***************************************************************************)
(* C25: while stop_flag is set, no process_speech task is submitted, no    *)
(* task reads a further chunk of its synthesis response (an open response  *)
(* is closed), and nothing but the end marker None is put on the audio     *)
(* queue.                                                                  *)
C25_NoSynthesisAfterStop ==
  [][stop_flag =>
       /\ talk_submitted' = talk_submitted
       /\ talk_part' = talk_part
       /\ Len(talk_queue') > Len(talk_queue) =>
            talk_queue'[Len(talk_queue')] = None]_vars


(***************************************************************************)
(* Further claims about record (SpecRec)                                   *)
(***************************************************************************)
(* C26: the audio of a successful recording begins with the first frame    *)
(* classified as speech: no frame read before it is in the data.           *)
C26_AudioStartsAtFirstSpeechFrame ==
  rec_pc = "success" =>
    /\ rec_result.data # <<>>
    /\ IsSpeechAt(mic, rec_result.data[1])
    /\ \A k \in 1..(rec_result.data[1] - 1) : ~IsSpeechAt(mic, k)


(* C27: record passes from awaiting speech (loop, recording_started false) *)
(* to recording (loop, recording_started true) to completed (success), or  *)
(* from awaiting speech to timed out: recording_started never falls back,  *)
(* the onset timeout fires only on a frame that is not speech with no      *)
(* speech seen before it, however much time has passed; the recording      *)
(* completes only from recording; and once record has ended, no frame is   *)
(* read and nothing of its state changes.                                  *)
C27_RecordStateMachine ==
  [][/\ recording_started => (recording_started' /\ rec_pc' # "timed_out")
     /\ (rec_pc' = "timed_out" /\ rec_pc # "timed_out") =>
          /\ rec_pc = "loop"
          /\ ~recording_started'
          /\ LastSpeech(mic, Len(audio_frames')) = 0
     /\ (rec_pc' = "success" /\ rec_pc # "success") =>
          /\ rec_pc = "loop"
          /\ recording_started
     /\ RecordEnded => UNCHANGED recVars]_vars

(* a recording has completed whose first speech frame was read in the      *)
(* iteration in which the onset window had elapsed                         *)
C27_Witness ==
  /\ rec_pc = "success"
  /\ mic.lead = OnsetFrames
  /\ (mic.lead + 1) * FrameMs > OnsetWindowMs
  /\ recording_started


(***************************************************************************)
(* Termination of the get() generators (SpecTeeFair)                       *)
(***************************************************************************)
(* C28: a get() generator has ended only if the reader has set finished    *)
(* and the generator has yielded every chunk of the buffer, which is then  *)
(* the whole source (so it neither ends for having caught up with a reader *)
(* that is still running nor misses the chunks appended last); and once    *)
(* finished is set, every generator that is iterated ends.                 *)
C28_GetEndsExactlyWhenDrained ==
  /\ [](\A c \in Consumers :
          get_pc[c] = "done" =>
            /\ finished
            /\ get_index[c] = Len(chunks)
            /\ get_out[c] = chunks
            /\ chunks = tee_source)
  /\ finished ~> (\A c \in Consumers : get_pc[c] = "done")

(* both generators have ended, having yielded a source of MaxK chunks *)
C28_Witness ==
  /\ Len(tee_source) = MaxK
  /\ finished
  /\ \A c \in Consumers : get_pc[c] = "done" /\ get_out[c] = chunks


(***************************************************************************)
(* Further claims about the sentence segmenter (SpecSeg)                   *)
(***************************************************************************)
(* the number of ``` in t from position i on *)
RECURSIVE FenceCount(_, _)
FenceCount(t, i) ==
  LET From(k) == IF k = 0 THEN 0 ELSE 1 + FenceCount(t, k + 3)
  IN  From(Find(t, Fence, i))

(* the text of the first j fragments *)
Upto(j) == Joined(SubSeq(seg_frags, 1, j))

(* C29: every call of collect_until_sentence_end that play_stream_audio    *)
(* makes with in_code_block set, or with a buffer whose last code fence is *)
(* an opening one, returns an empty sentence.                              *)
C29_NoSentenceInsideCode ==
  (seg_pc = "loop" /\ seg_pos < Len(seg_frags)) =>
    \A buffer \in {text_buffer \o seg_frags[seg_pos + 1]} :
      (in_code_block \/ FenceCount(buffer, 1) % 2 = 1) =>
        collect_until_sentence_end(buffer, in_code_block)[1] = <<>>

(* C30: for the response "Go ```a. b``` Hi. Ok." streamed so that the      *)
(* closing fence arrives in a later fragment than the opening one, the     *)
(* flag is clear when the stream has ended and the sentences after the     *)
(* span, "Hi." and "Ok.", have each been submitted as a unit.              *)
C30_SentencesAfterCodeAreUnits ==
  (/\ seg_pc = "done"
   /\ Joined(seg_frags) = TextCodeHi
   /\ \E j \in 1..Len(seg_frags) : FenceCount(Upto(j), 1) = 1) =>
    /\ ~in_code_block
    /\ \E k \in 1..Len(units) : units[k] = <<"H","i",".">>
    /\ \E k \in 1..Len(units) : units[k] = <<"O","k",".">>

(* C31: a call of collect_until_sentence_end made outside a code span (the *)
(* flag clear and no fence left open by the buffer) splits the processed   *)
(* text at its first terminal mark that is followed by whitespace or ends  *)
(* the text: the sentence is the text up to and including the mark, and    *)
(* the remainder is the rest of the text, of which nothing but whitespace  *)
(* next to the mark is left out; without such a mark the sentence is empty *)
(* and the buffer comes back unchanged.                                    *)
C31_SplitAtFirstMark ==
  (seg_pc = "loop" /\ seg_pos < Len(seg_frags) /\ ~in_code_block) =>
    \A buffer \in {text_buffer \o seg_frags[seg_pos + 1]} :
      \A p \in {parse_special_content(buffer, FALSE)} :
        \A r \in {collect_until_sentence_end(buffer, FALSE)} :
          \A end \in {SentenceEnd(p[1])} :
            ~p[2] =>
              IF end > 0
              THEN /\ r[1] = Take(p[1], end)
                   /\ \E k \in 0..(Len(p[1]) - end) :
                        /\ r[2] = Drop(p[1], end + k)
                        /\ \A j \in (end + 1)..(end + k) :
                             p[1][j] \in Whitespace
              ELSE r[1] = <<>> /\ r[2] = buffer

(* C32: no unit submitted to process_speech, the flushed remainder         *)
(* included, carries a fence marker, and for the response                  *)
(* "Run ```rm -rf /``` then done." no unit carries the command inside the  *)
(* span.                                                                   *)
C32_NoCodeReachesTts ==
  \A k \in 1..Len(units) :
    /\ Find(units[k], Fence, 1) = 0
    /\ Joined(seg_frags) = TextRunCode =>
         Find(units[k], <<"r", "m">>, 1) = 0

(* a text without code fences, inline code and links *)
Prose(t) == \A j \in 1..Len(t) : t[j] \notin {BT, "["}

(* the characters of t that are not whitespace *)
Squeeze(t) == SelectSeq(t, LAMBDA ch : ch \notin Whitespace)

C34_CancelledTurnLeavesNothing ==
  (talk_pc = "returned" /\ woken) => (~stop_flag /\ talk_queue = <<>>)

(***************************************************************************)
(* Further claims about the synthesis / playback pipeline (SpecPlay)       *)
(***************************************************************************)
(* C35: once play_stream_audio has called stop_audio, every process_speech *)
(* task it submitted is over, and nothing of this turn stands behind the   *)
(* marker of stop_audio in audio_queue; so also when the stream raised or  *)
(* a task failed.                                                          *)
C35_StopMarkerAfterEveryTask ==
  /\ psa_pc \in {"join", "returned"} => \A i \in Sentences : TaskOver(i)
  /\ \A k \in 1..Len(audio_queue) :
       audio_queue[k] = StopItem(turn) =>
         \A j \in (k + 1)..Len(audio_queue) : audio_queue[j].turn # turn

(* the stream raised while two tasks were submitted, the second failed,    *)
(* and the marker has been sent                                            *)
C35_Witness ==
  /\ psa_pc = "join"
  /\ stream_raised
  /\ submitted = 2
  /\ task[1] = "done"
  /\ task[2] = "failed"

(* C36: every call of play_stream_audio returns, with its playback thread  *)
(* ended, whatever fails on the way: a TTS call, the response stream or    *)
(* the output device.                                                      *)
C36_PlayStreamAudioReturns ==
  (psa_pc = "start") ~> (psa_pc = "returned" /\ pa_pc = "done")

(* a call has returned after the stream raised and the device failed *)
C36_Witness ==
  /\ psa_pc = "returned"
  /\ stream_raised
  /\ pa_end = DeviceError
  /\ submitted > 0

(* C37: at most one process_speech task has a TTS request in flight, and   *)
(* it is the holder of transcription_lock; a task that has received its    *)
(* audio or failed holds the lock no longer; a request starts only when    *)
(* the lock is free, and the lock passes from a successful request only    *)
(* together with the put of its audio on audio_queue.                      *)
C37_OneRequestInFlight ==
  /\ [](/\ Cardinality({i \in Sentences : task[i] = "tts"}) <= 1
        /\ \A i \in Sentences : task[i] = "tts" <=> transcription_lock = i)
  /\ [][/\ \A i \in Sentences :
             (task[i] # "tts" /\ task'[i] = "tts") => transcription_lock = 0
        /\ \A i \in Sentences :
             (task[i] = "tts" /\ task'[i] = "done") =>
               /\ audio_queue' = Append(audio_queue, AudioItem(turn, i))
               /\ transcription_lock' = 0
        /\ \A i \in Sentences :
             (task[i] = "tts" /\ task'[i] = "failing") =>
               transcription_lock' = 0]_vars

(* the first request failed and the second sentence is being synthesised *)
C37_Witness ==
  /\ task[1] = "failed"
  /\ task[2] = "tts"
  /\ transcription_lock = 2

(***************************************************************************)
(* Further claims about StreamSplitter (SpecTeeFair)                       *)
(***************************************************************************)
(* C38: once the reader thread has stopped, because the source is          *)
(* exhausted or because reading it raised, every get() generator that is   *)
(* iterated ends.                                                          *)
C38_GetEndsWhenSourceStops ==
  (reader_pc \in {"done", "raised"}) ~> (\A c \in Consumers : get_pc[c] = "done")

(* C39: ask_chat_gpt takes the first chunk from one generator of get() and *)
(* returns another.  Whatever a generator has already yielded, another     *)
(* generator starts at the first chunk of the response and goes on in      *)
(* production order: its index counts its own yields only, and what it     *)
(* has yielded is the buffer up to that index, the whole response once it  *)
(* has ended.                                                              *)
C39_InspectionDoesNotConsume ==
  \A c \in Consumers : \A d \in Consumers \ {c} :
    get_index[d] >= 1 =>
      /\ get_index[c] = Len(get_out[c])
      /\ get_out[c] = SubSeq(chunks, 1, get_index[c])
      /\ get_index[c] >= 1 => get_out[c][1] = tee_source[1]
      /\ get_pc[c] = "done" => Len(get_out[c]) = Len(tee_source)

(* the first generator was asked for one chunk only (the inspection), and  *)
(* the second has yielded the whole response of MaxK chunks, which do not  *)
(* all have the same content                                               *)
C39_Witness ==
  /\ Len(tee_source) = MaxK
  /\ tee_source[1] # tee_source[2]
  /\ get_index[1] = 1
  /\ get_pc[2] = "done"
  /\ get_out[2] = tee_source

====
